---- MODULE Spec2Model ----
(***************************************************************************)
(* aint-safe: async-interrupt-safe containers.                             *)
(*                                                                         *)
(* Scheduling model (spec section 5): one CPU; a context may be pre-empted *)
(* between any two atomic accesses by a nested context, which runs to      *)
(* completion before the pre-empted context resumes.  Contexts therefore   *)
(* form a stack: level 1 is the outermost, level `depth` is the one that   *)
(* runs.  Every action below is one atomic access of the running context   *)
(* (with the purely local computation that follows it).                    *)
(*                                                                         *)
(* Specifications:                                                         *)
(*   SpecMcas   Mcas_read / Mcas_compare_exchange under nested pre-emption *)
(*   SpecQueue  the MCAS-backed NestedQueue, calls made one after another  *)
(*              by one context (no MCAS operation then fails its compare,  *)
(*              so the failure step CmStatusCas has no part in it)         *)
(*   SpecQueueNested  the same queue under nested pre-emption, runs of at  *)
(*              most MaxCalls calls                                        *)
(*   SpecQueueIterator  the queue and its iterators, one context           *)
(*   SpecQueueLive  the queue under nested pre-emption, any number of      *)
(*              calls, with the fairness that termination needs            *)
(*   SpecIq     the index-based NestedQueue that nested_queue.h declares,  *)
(*              under nested pre-emption                                   *)
(*   SpecDb     the double buffer, both revisions of double_buffer.c, under *)
(*              nested pre-emption; SpecDbLive adds the fairness that      *)
(*              termination needs, at a smaller depth                      *)
(*              SpecDbTime keeps the age of what the slots hold            *)
(*   SpecBag    the memory bag under nested pre-emption; SpecBagLive adds  *)
(*              the fairness that termination needs                        *)
(*   SpecSl     the singly linked list under nested pre-emption;           *)
(*              SpecSlAppend starts from a shorter list with two nodes to  *)
(*              append                                                     *)
(***************************************************************************)
EXTENDS Integers, Sequences, FiniteSets, TLC

\* ------------------------------------------------------------------ bounds
\* Deepest interrupt nesting explored (contexts on the stack).
MaxDepth == 2
\* Number of words K of the MCAS array in SpecMcas.
NWords == 2
\* Words hold values 0..MaxVal in SpecMcas.
MaxVal == 1

VARIABLES
    n_elems,    \* mcas->n_elems
    data,       \* mcas->data : word index 0..n_elems-1 -> value
    journal,    \* mcas->journal : 0 is NULL, l > 0 is the entry of level l
    depth,      \* number of contexts on the stack; level `depth` runs
    ent,        \* the McasJournal entry on the stack of each level
    loc,        \* the local variables of the MCAS code of each level
    legit,      \* history: the initial array and the desired vector of
                \*          every compare-exchange whose status became SUCCESS
    obs,        \* history: per level, facts about the operation in flight
    q,          \* NestedQueue: n_elems, elem_size, write_order, read_order
                \*              (its indexes are the MCAS array `data`)
    qf,         \* the frame of the queue function each level executes
    gq,         \* history of the queue: slots handed out, last call, payload
    iterator,   \* NestedQueueIterator: current_i, end_i (and history)
    iq,         \* the index-based NestedQueue of nested_queue.h: its four
                \* indexes, n_elems, elem_size, frames and history
    db,         \* DoubleBuffer: selected_read, next_read, n_readers,
                \*               write_mutex, data, elem_size
    dbf,        \* the frame of the double-buffer function of each level
    gdb,        \* history of the double buffer: slots held, last commit
    bag,        \* Membag: n_free, alloc_status, n_elems, elem_size
    bagf,       \* the frame of the membag function of each level
    gbag,       \* history of the membag: slots held
    sl,         \* the SlistNode of each node: deleting, next
    slf,        \* the frame of the slist function of each level
    gsl         \* history of the list: the call that returned last

dbvars == <<db, dbf, gdb>>
bagvars == <<bag, bagf, gbag>>
slvars == <<sl, slf, gsl>>
\* The variables of the structures other than the MCAS and its queue, and
\* the queue iterator and the index-based queue, which no MCAS or queue
\* function touches.
rest == <<dbvars, bagvars, slvars, iterator, iq>>
\* The variables of the MCAS and its queue, but for the context stack.
mcasvars ==
    <<n_elems, data, journal, ent, loc, legit, obs, q, qf, gq, iterator, iq>>

vars == <<n_elems, data, journal, depth, ent, loc, legit, obs, q, qf, gq,
          iterator, iq, db, dbf, gdb, bag, bagf, gbag, sl, slf, gsl>>

\* A specification of one structure leaves the others out.
NoMcas ==
    /\ n_elems = 0 /\ data = <<>> /\ journal = 0
    /\ ent = <<>> /\ loc = <<>> /\ legit = {} /\ obs = <<>>
    /\ q = <<>> /\ qf = <<>> /\ gq = <<>> /\ iterator = <<>>
    /\ iq = <<>>
NoDoubleBuffer == db = <<>> /\ dbf = <<>> /\ gdb = <<>>
NoMembag == bag = <<>> /\ bagf = <<>> /\ gbag = <<>>
NoSlist == sl = <<>> /\ slf = <<>> /\ gsl = <<>>

Levels == 1..MaxDepth
Words == 0..(n_elems - 1)
Vec == [0..(NWords - 1) -> 0..MaxVal]
\* The callers of SpecMcas expect any vector and desire a vector that holds
\* one value in all its words, so that a mixture of two vectors shows.
Uniform == {v \in Vec : \A i, k \in DOMAIN v : v[i] = v[k]}

\* ---------------------------------------------------------- journal entries
\* struct McasJournal.  Fields of the inactive union member are left empty.
NoEntry ==
    [operation |-> "NONE", operation_chain |-> 0, status |-> "UNDEFINED",
     expected |-> <<>>, desired |-> <<>>, swapping |-> FALSE,
     read_dest |-> <<>>, read_flags |-> <<>>]

\* The initialiser of `journal` in Mcas_compare_exchange.
CasEntry(expected, desired) ==
    [operation |-> "CAS", operation_chain |-> 0, status |-> "UNDEFINED",
     expected |-> expected, desired |-> desired, swapping |-> FALSE,
     read_dest |-> <<>>, read_flags |-> <<>>]

\* The initialiser of `journal` in Mcas_read, after the loop that clears the
\* flags; the destination array is the caller's and holds no value yet (-1).
ReadEntry ==
    [operation |-> "READ", operation_chain |-> 0, status |-> "UNDEFINED",
     expected |-> <<>>, desired |-> <<>>, swapping |-> FALSE,
     read_dest |-> [i \in Words |-> -1], read_flags |-> [i \in Words |-> FALSE]]

\* Locals of link_McasJournal, execute_operation, complete_mcas, complete_read:
\*   j         link_McasJournal's j (0 is &mcas->journal, l is
\*             &entry[l].operation_chain)
\*   prev_node execute_operation's prev_node (same encoding)
\*   cur       execute_operation's loop variable j (an entry, 0 is NULL)
\*   i         the loop index of complete_mcas / complete_read
\*   status    complete_mcas's local status
\*   value     complete_read's local value / the value loaded for the unlink
NoLocals ==
    [pc |-> "idle", j |-> 0, prev_node |-> 0, cur |-> 0, i |-> 0,
     status |-> "UNDEFINED", value |-> 0]

StartLocals == [NoLocals EXCEPT !.pc = "link_cas"]

\* The value of the atomic pointer that p addresses.
Deref(p) == IF p = 0 THEN journal ELSE ent[p].operation_chain

self == depth
Running(label) == depth >= 1 /\ loc[self].pc = label

Goto(label) == loc' = [loc EXCEPT ![self].pc = label]

\* complete_mcas / complete_read return to the loop of execute_operation;
\* their locals i, status and value are dead from here on.
Completed ==
    loc' = [loc EXCEPT ![self].i = 0, ![self].status = "UNDEFINED",
                       ![self].value = 0, ![self].pc = "walk_next"]

\* complete_operation: the switch on journal->operation.
complete_operation(j) ==
    IF ent[j].operation = "READ" THEN "cr_load_status" ELSE "cm_load_status"

\* ------------------------------------------------------- link_McasJournal
\* while (!atomic_compare_exchange_strong(j, &next, journal)) with next NULL:
\* on success the entry is installed at j and j is returned to
\* execute_operation (prev_node); on failure next holds the observed entry
\* and j moves on to its operation_chain.
\* j = &next->operation_chain: the pointer the loop tries next.
LinkNextMutant(next) == 0
LinkNext(next) == next

LinkCas ==
    /\ Running("link_cas")
    /\ LET p == loc[self].j
           seen == Deref(p)
       IN IF seen = 0
          THEN /\ journal' = IF p = 0 THEN self ELSE journal
               /\ ent' = IF p = 0 THEN ent
                         ELSE [ent EXCEPT ![p].operation_chain = self]
               /\ loc' = [loc EXCEPT ![self].prev_node = p, ![self].j = 0,
                                     ![self].pc = "walk_load"]
          ELSE /\ loc' = [loc EXCEPT ![self].j = LinkNext(seen)]
               /\ UNCHANGED <<journal, ent>>
    /\ UNCHANGED <<n_elems, data, depth>>

\* ------------------------------------------------------ execute_operation
\* The entry the walk starts at: the head of the journal, so that the
\* operations of the pre-empted contexts are completed first.
WalkStartMutant(head) == self
WalkStart(head) == head

\* for (j = atomic_load(&mcas->journal); j != NULL; ...)
WalkLoad ==
    /\ Running("walk_load")
    /\ LET first == WalkStart(journal)
       IN loc' = [loc EXCEPT ![self].cur = first,
                             ![self].pc = IF first = 0 THEN "assert_first"
                                          ELSE complete_operation(first)]
    /\ UNCHANGED <<n_elems, data, journal, depth, ent>>

\* ... j = atomic_load(&j->operation_chain))
WalkNext ==
    /\ Running("walk_next")
    /\ LET n == ent[loc[self].cur].operation_chain
       IN loc' = [loc EXCEPT ![self].cur = n,
                             ![self].pc = IF n = 0 THEN "assert_first"
                                          ELSE complete_operation(n)]
    /\ UNCHANGED <<n_elems, data, journal, depth, ent>>

\* ----------------------------------------------------------- complete_mcas
\* atomic_compare_exchange_strong(object, &expected, desired): the value the
\* object holds afterwards.
StrongCasMutant(current, expected, desired) == desired
compare_exchange_strong(current, expected, desired) ==
    IF current = expected THEN desired ELSE current

\* McasStatus status = atomic_load(&journal->status);
\* if (status == MCAS_STATUS_UNDEFINED) { ... }
CmLoadStatus ==
    /\ Running("cm_load_status")
    /\ LET s == ent[loc[self].cur].status
       IN IF s = "UNDEFINED"
          THEN loc' = [loc EXCEPT ![self].status = s,
                                  ![self].pc = "cm_load_swapping"]
          ELSE Completed
    /\ UNCHANGED <<n_elems, data, journal, depth, ent>>

\* if (!atomic_load(&journal->swapping)) { compare loop } store loop
CmLoadSwapping ==
    /\ Running("cm_load_swapping")
    /\ loc' = [loc EXCEPT ![self].i = 0,
                          ![self].pc = IF ent[loc[self].cur].swapping
                                       THEN "cm_store_data"
                                       ELSE "cm_compare"]
    /\ UNCHANGED <<n_elems, data, journal, depth, ent>>

\* if (atomic_load(&mcas->data[i]) != journal->expected[i])
CmCompare ==
    /\ Running("cm_compare")
    /\ LET i == loc[self].i
           e == ent[loc[self].cur]
       IN loc' = IF data[i] # e.expected[i]
                 THEN [loc EXCEPT ![self].pc = "cm_status_cas"]
                 ELSE [loc EXCEPT ![self].i = i + 1,
                                  ![self].pc = IF i + 1 < n_elems
                                               THEN "cm_compare"
                                               ELSE "cm_store_swapping"]
    /\ UNCHANGED <<n_elems, data, journal, depth, ent>>

\* atomic_compare_exchange_strong(&journal->status, &status,
\*                                MCAS_STATUS_FAILURE); return;
CmStatusCas ==
    /\ Running("cm_status_cas")
    /\ LET c == loc[self].cur
       IN ent' = [ent EXCEPT ![c].status =
                     compare_exchange_strong(ent[c].status, loc[self].status,
                                             "FAILURE")]
    /\ Completed
    /\ UNCHANGED <<n_elems, data, journal, depth>>

\* atomic_store(&journal->swapping, true);
CmStoreSwapping ==
    /\ Running("cm_store_swapping")
    /\ ent' = [ent EXCEPT ![loc[self].cur].swapping = TRUE]
    /\ loc' = [loc EXCEPT ![self].i = 0, ![self].pc = "cm_store_data"]
    /\ UNCHANGED <<n_elems, data, journal, depth>>

\* atomic_store(&mcas->data[i], journal->desired[i]);
CmStoreData ==
    /\ Running("cm_store_data")
    /\ LET i == loc[self].i
       IN /\ data' = [data EXCEPT ![i] = ent[loc[self].cur].desired[i]]
          /\ loc' = [loc EXCEPT ![self].i = i + 1,
                                ![self].pc = IF i + 1 < n_elems
                                             THEN "cm_store_data"
                                             ELSE "cm_store_status"]
    /\ UNCHANGED <<n_elems, journal, depth, ent>>

\* atomic_store(&journal->status, MCAS_STATUS_SUCCESS);
CmStoreStatus ==
    /\ Running("cm_store_status")
    /\ ent' = [ent EXCEPT ![loc[self].cur].status = "SUCCESS"]
    /\ Completed
    /\ UNCHANGED <<n_elems, data, journal, depth>>

\* ----------------------------------------------------------- complete_read
\* if (atomic_load(&journal->status) == MCAS_STATUS_UNDEFINED) { ... }
CrLoadStatus ==
    /\ Running("cr_load_status")
    /\ IF ent[loc[self].cur].status = "UNDEFINED"
       THEN loc' = [loc EXCEPT ![self].i = 0, ![self].pc = "cr_load_data"]
       ELSE Completed
    /\ UNCHANGED <<n_elems, data, journal, depth, ent>>

\* int value = atomic_load(&mcas->data[i]);
CrLoadData ==
    /\ Running("cr_load_data")
    /\ loc' = [loc EXCEPT ![self].value = data[loc[self].i],
                          ![self].pc = "cr_test_and_set"]
    /\ UNCHANGED <<n_elems, data, journal, depth, ent>>

\* The end of one iteration of complete_read's loop.
CrAdvance(i) == IF i + 1 < n_elems THEN "cr_load_data" ELSE "cr_store_status"

\* if (!atomic_flag_test_and_set(&journal->read_flags[i]))
CrTestAndSet ==
    /\ Running("cr_test_and_set")
    /\ LET i == loc[self].i
           c == loc[self].cur
       IN /\ ent' = [ent EXCEPT ![c].read_flags[i] = TRUE]
          /\ loc' = IF ent[c].read_flags[i]
                    THEN [loc EXCEPT ![self].i = i + 1, ![self].value = 0,
                                     ![self].pc = CrAdvance(i)]
                    ELSE [loc EXCEPT ![self].pc = "cr_write_dest"]
    /\ UNCHANGED <<n_elems, data, journal, depth>>

\* journal->read_dest[i] = value;
CrWriteDest ==
    /\ Running("cr_write_dest")
    /\ LET i == loc[self].i
       IN /\ ent' = [ent EXCEPT ![loc[self].cur].read_dest[i] = loc[self].value]
          /\ loc' = [loc EXCEPT ![self].i = i + 1, ![self].value = 0,
                                ![self].pc = CrAdvance(i)]
    /\ UNCHANGED <<n_elems, data, journal, depth>>

\* atomic_store(&journal->status, MCAS_STATUS_SUCCESS);
CrStoreStatus ==
    /\ Running("cr_store_status")
    /\ ent' = [ent EXCEPT ![loc[self].cur].status = "SUCCESS"]
    /\ Completed
    /\ UNCHANGED <<n_elems, data, journal, depth>>

\* ------------------------------------------- execute_operation: the unlink
\* assert(atomic_load(&journal->operation_chain) == NULL);   (first)
AssertFirst ==
    /\ Running("assert_first")
    /\ Goto("unlink_load")
    /\ UNCHANGED <<n_elems, data, journal, depth, ent>>

\* atomic_store(prev_node, journal->operation_chain): the value stored, given
\* the value read from the entry's own operation_chain.
UnlinkValueMutant(chain) == self
UnlinkValue(chain) == chain

\* ... the read of journal->operation_chain
UnlinkLoad ==
    /\ Running("unlink_load")
    /\ loc' = [loc EXCEPT ![self].value = ent[self].operation_chain,
                          ![self].pc = "unlink_store"]
    /\ UNCHANGED <<n_elems, data, journal, depth, ent>>

\* ... the store through prev_node
UnlinkStore ==
    /\ Running("unlink_store")
    /\ LET p == loc[self].prev_node
           v == UnlinkValue(loc[self].value)
       IN /\ journal' = IF p = 0 THEN v ELSE journal
          /\ ent' = IF p = 0 THEN ent ELSE [ent EXCEPT ![p].operation_chain = v]
    /\ loc' = [loc EXCEPT ![self].value = 0, ![self].prev_node = 0,
                          ![self].pc = "assert_second"]
    /\ UNCHANGED <<n_elems, data, depth>>

\* assert(atomic_load(&journal->operation_chain) == NULL);   (second)
AssertSecond ==
    /\ Running("assert_second")
    /\ Goto("return")
    /\ UNCHANGED <<n_elems, data, journal, depth, ent>>

\* ------------------------------------------------ the MCAS entry points
\* A context (the main program at depth 0, an interrupt handler above it)
\* calls Mcas_compare_exchange(mcas, expected, desired).
Mcas_compare_exchange(expected, desired) ==
    /\ depth < MaxDepth
    /\ depth' = depth + 1
    /\ ent' = [ent EXCEPT ![depth + 1] = CasEntry(expected, desired)]
    /\ loc' = [loc EXCEPT ![depth + 1] = StartLocals]
    /\ UNCHANGED <<n_elems, data, journal>>

\* A context calls Mcas_read(mcas, data).
Mcas_read ==
    /\ depth < MaxDepth
    /\ depth' = depth + 1
    /\ ent' = [ent EXCEPT ![depth + 1] = ReadEntry]
    /\ loc' = [loc EXCEPT ![depth + 1] = StartLocals]
    /\ UNCHANGED <<n_elems, data, journal>>

\* The value Mcas_compare_exchange returns: status == MCAS_STATUS_SUCCESS.
CasResult(status) == status = "SUCCESS"

\* The call returns and its context ends: the pre-empted context resumes.
McasReturn ==
    /\ Running("return")
    /\ depth' = depth - 1
    /\ ent' = [ent EXCEPT ![self] = NoEntry]
    /\ loc' = [loc EXCEPT ![self] = NoLocals]
    /\ UNCHANGED <<n_elems, data, journal>>

\* ------------------------------------------------------ history variables
\* obs[l] for the operation of level l:
\*   stored     a data word was stored on behalf of the entry of level l
\*   preempted  a nested context ran during the call
\*   e_data, e_journal, e_chain   the array, mcas->journal and every entry's
\*                                operation_chain when the call was made
\*   e_expected                   the expected vector the caller passed
\*   e_undefined                  the entries that were in the journal with
\*                                status UNDEFINED when the call was made
NoObs ==
    [stored |-> FALSE, preempted |-> FALSE, e_data |-> <<>>,
     e_journal |-> 0, e_chain |-> <<>>, e_expected |-> <<>>,
     e_undefined |-> {}]

ChainOf == [l \in Levels |-> ent[l].operation_chain]

ObserveMcas ==
    /\ UNCHANGED <<q, qf, gq, rest>>
    /\ legit' = legit \cup
                 {ent[l].desired : l \in {k \in Levels :
                      /\ ent[k].operation = "CAS"
                      /\ ent[k].status # "SUCCESS"
                      /\ ent'[k].operation = "CAS"
                      /\ ent'[k].status = "SUCCESS"}}
    /\ obs' = [l \in Levels |->
                 IF l > depth'
                   THEN NoObs
                 ELSE IF l > depth
                   THEN [NoObs EXCEPT !.e_data = data, !.e_journal = journal,
                                      !.e_chain = ChainOf,
                                      !.e_expected = ent'[l].expected,
                                      !.e_undefined =
                                          {k \in 1..depth :
                                              /\ \/ journal = k
                                                 \/ \E m \in 1..depth :
                                                        ChainOf[m] = k
                                              /\ ent[k].status = "UNDEFINED"}]
                 ELSE IF l = depth /\ depth' > depth
                   THEN [obs[l] EXCEPT !.preempted = TRUE]
                 ELSE IF depth' = depth /\ loc[depth].pc = "cm_store_data"
                         /\ l = loc[depth].cur
                   THEN [obs[l] EXCEPT !.stored = TRUE]
                 ELSE obs[l]]

\* ---------------------------------------------------------------- SpecMcas
InitMcas ==
    /\ n_elems = NWords
    /\ data = [i \in 0..(NWords - 1) |-> 0]
    /\ journal = 0
    /\ depth = 0
    /\ ent = [l \in Levels |-> NoEntry]
    /\ loc = [l \in Levels |-> NoLocals]
    /\ legit = {data}
    /\ obs = [l \in Levels |-> NoObs]
    /\ q = <<>> /\ qf = <<>> /\ gq = <<>> /\ iterator = <<>>
    /\ iq = <<>>
    /\ NoDoubleBuffer /\ NoMembag /\ NoSlist

NextMcas ==
    \/ (\E expected \in Vec, desired \in Uniform :
            Mcas_compare_exchange(expected, desired)) /\ ObserveMcas
    \/ Mcas_read /\ ObserveMcas
    \/ LinkCas /\ ObserveMcas
    \/ WalkLoad /\ ObserveMcas
    \/ WalkNext /\ ObserveMcas
    \/ CmLoadStatus /\ ObserveMcas
    \/ CmLoadSwapping /\ ObserveMcas
    \/ CmCompare /\ ObserveMcas
    \/ CmStatusCas /\ ObserveMcas
    \/ CmStoreSwapping /\ ObserveMcas
    \/ CmStoreData /\ ObserveMcas
    \/ CmStoreStatus /\ ObserveMcas
    \/ CrLoadStatus /\ ObserveMcas
    \/ CrLoadData /\ ObserveMcas
    \/ CrTestAndSet /\ ObserveMcas
    \/ CrWriteDest /\ ObserveMcas
    \/ CrStoreStatus /\ ObserveMcas
    \/ AssertFirst /\ ObserveMcas
    \/ UnlinkLoad /\ ObserveMcas
    \/ UnlinkStore /\ ObserveMcas
    \/ AssertSecond /\ ObserveMcas
    \/ McasReturn /\ ObserveMcas

SpecMcas == InitMcas /\ [][NextMcas]_vars

\* ------------------------------------------------------------ claims, MCAS
Active == 1..depth
\* Level l runs and its next step is the return of its call.
Returning(l) == l = depth /\ l >= 1 /\ loc[l].pc = "return"

\* C1: Mcas_compare_exchange is all-or-nothing: whenever no operation is in
\* flight the array is the initial array or the desired vector of a
\* compare-exchange that succeeded, never a mixture of words of two of them.
C1_ArrayAtRestIsOneVector == depth = 0 => data \in legit

\* C2: the vector Mcas_read hands back is the whole array as it stood
\* between two successful compare-exchanges (or initially): the initial array
\* or the desired vector of one successful compare-exchange.
C2_ReadIsSnapshot ==
    \A l \in Levels :
        Returning(l) /\ ent[l].operation = "READ" => ent[l].read_dest \in legit

\* The value Mcas_compare_exchange of level l is about to return.
ReturnsFalse(l) ==
    Returning(l) /\ ent[l].operation = "CAS" /\ ~CasResult(ent[l].status)

\* C3 as stated: a compare-exchange that returns false had no data word
\* stored on behalf of its entry and leaves expected as passed; if the call
\* was not pre-empted, the array is as it was when the call was made.
C3_FailedCasAsStated ==
    \A l \in Levels :
        ReturnsFalse(l) =>
            /\ ~obs[l].stored
            /\ ent[l].expected = obs[l].e_expected
            /\ ~obs[l].preempted => data = obs[l].e_data

\* C3 as amended: the same, the array being unchanged for a call that was
\* not pre-empted and found no operation in flight (an empty journal) when
\* it was made.  A nested call completes the operations it pre-empted first,
\* and those may store.
C3_FailedCasDoesNotMutate ==
    \A l \in Levels :
        ReturnsFalse(l) =>
            /\ ~obs[l].stored
            /\ ent[l].expected = obs[l].e_expected
            /\ (~obs[l].preempted /\ obs[l].e_journal = 0) =>
                   data = obs[l].e_data

\* A compare-exchange returns false after an uninterrupted call from rest.
C3_Witness ==
    \E l \in Levels :
        /\ ReturnsFalse(l)
        /\ ent[l].status = "FAILURE"
        /\ ~obs[l].preempted /\ obs[l].e_journal = 0
        /\ data = obs[l].e_data

\* The entries that are in the journal: linked by link_McasJournal and not
\* yet unlinked by execute_operation.
Linked ==
    {l \in Active :
        loc[l].pc \notin {"idle", "link_cas", "assert_second", "return"}}

\* The next linked entry after level l, 0 (NULL) if there is none.
LinkedAfter(l) ==
    IF \E k \in Linked : k > l
    THEN CHOOSE k \in Linked : k > l /\ \A m \in Linked : m > l => k <= m
    ELSE 0

\* C4: the journal is the NULL-terminated chain of the entries of the
\* contexts inside an operation, outermost first; both assertions of
\* execute_operation hold; and when a call returns, mcas->journal and every
\* entry's operation_chain are what they were when the call was made.
C4_JournalRestored ==
    /\ journal = LinkedAfter(0)
    /\ \A l \in Levels :
           ent[l].operation_chain = IF l \in Linked THEN LinkedAfter(l) ELSE 0
    /\ \A l \in Active :
           loc[l].pc \in {"assert_first", "assert_second"} /\ l = depth =>
               ent[l].operation_chain = 0
    /\ \A l \in Levels :
           Returning(l) => journal = obs[l].e_journal /\ ChainOf = obs[l].e_chain

\* A nested call returns while the entry of the operation it pre-empted is
\* in the journal.
C4_Witness ==
    /\ depth > 1
    /\ Returning(depth)
    /\ obs[depth].e_journal # 0
    /\ journal = obs[depth].e_journal

\* The entries that were in the journal when the call of level l appended
\* its own: the entries of the operations it pre-empted.
LinkedBelow(l) == {k \in Linked : k < l}
Terminal(status) == status \in {"SUCCESS", "FAILURE"}
AllWords(v) == [i \in Words |-> v]

\* C22: when a nested context returns from Mcas_read or
\* Mcas_compare_exchange, the entries that were in the journal when it
\* appended and its own entry have a terminal status, READ entries SUCCESS;
\* an entry on whose behalf a word was stored returns true; and a read that
\* is not itself pre-empted and finds as only entry an unfinished
\* compare_exchange([0,0],[1,1]) with the array at [0,0] applies it, hands
\* back the snapshot [1,1] and leaves the entry SUCCESS.
C22_Helping ==
    /\ \A l \in Levels :
           Returning(l) =>
               \A k \in LinkedBelow(l) \cup {l} :
                   /\ Terminal(ent[k].status)
                   /\ ent[k].operation = "READ" => ent[k].status = "SUCCESS"
    /\ \A l \in Levels :
           Returning(l) /\ ent[l].operation = "CAS" /\ obs[l].stored =>
               CasResult(ent[l].status)
    /\ \A l \in Levels : \A k \in Levels :
           (/\ Returning(l) /\ ent[l].operation = "READ"
            /\ ~obs[l].preempted
            /\ LinkedBelow(l) = {k}
            /\ k \in obs[l].e_undefined
            /\ ent[k].operation = "CAS"
            /\ ent[k].expected = AllWords(0) /\ ent[k].desired = AllWords(1)
            /\ obs[l].e_data = AllWords(0))
           => /\ ent[l].read_dest = AllWords(1)
              /\ data = AllWords(1)
              /\ ent[k].status = "SUCCESS"

\* The inner read returns [1,1] after it applied the outer
\* compare_exchange([0,0],[1,1]).
C22_Witness ==
    /\ depth = 2
    /\ Returning(2) /\ ent[2].operation = "READ"
    /\ 1 \in obs[2].e_undefined
    /\ ent[1].operation = "CAS"
    /\ ent[1].expected = AllWords(0) /\ ent[1].desired = AllWords(1)
    /\ obs[2].e_data = AllWords(0)
    /\ ent[2].read_dest = AllWords(1)
    /\ ent[1].status = "SUCCESS"

\* C23: the status of a journal entry is monotone: while the entry is in
\* use it changes only from UNDEFINED, to SUCCESS or to FAILURE; SUCCESS
\* never becomes FAILURE and FAILURE never becomes SUCCESS.
StatusStep(l) ==
    (l <= depth /\ l <= depth' /\ ent[l].status # ent'[l].status) =>
        ent[l].status = "UNDEFINED" /\ Terminal(ent'[l].status)

C23_StatusMonotone == [][\A l \in Levels : StatusStep(l)]_vars

\* The running context is inside complete_mcas for an entry that a nested
\* helper has driven to SUCCESS.
ResumedAfterSuccess ==
    /\ depth >= 1
    /\ loc[self].pc \in {"cm_load_swapping", "cm_compare", "cm_status_cas",
                         "cm_store_swapping", "cm_store_data",
                         "cm_store_status"}
    /\ ent[loc[self].cur].status = "SUCCESS"

\* C24: completing a CAS entry is idempotent under helping: the steps a
\* context still executes inside complete_mcas for an entry that is already
\* SUCCESS leave the array as it is.
C24_Idempotent == [][ResumedAfterSuccess => data' = data]_vars

\* ===================================================== MCAS-backed queue
\* The indexes of the queue: the words of q->indexes, in the order the
\* specification lists them.
NESTED_QUEUE_WRITE_ALLOCATED == 0
NESTED_QUEUE_WRITE_COMMITTED == 1
NESTED_QUEUE_READ_ACQUIRED == 2
NESTED_QUEUE_READ_RELEASED == 3
NESTED_QUEUE_COUNT_WRITABLE == 4
NESTED_QUEUE_COUNT_READABLE == 5
NESTED_QUEUE_NUMBER_OF_INDEXES == 6

\* ------------------------------------------------------------------ bounds
\* Number of slots N of the queue in SpecQueue.
QueueSize == 4
\* Size of a slot in bytes.
ElemSize == 2
\* The payload a writer puts into a slot is one of 0..MaxPayload.
MaxPayload == 1
\* Number of slots N of the queue in SpecQueueNested.
NestedQueueSize == 2
\* Number of queue calls made in a run of SpecQueueNested.
MaxCalls == 4

\* A slot pointer is its byte offset from q->data; NULL is -1.
NULL == -1
idx_to_ptr(index) == q.elem_size * index
ptr_to_idx(ptr) == ptr \div q.elem_size

\* The arguments the four entry points pass to NestedQueue_acquire and
\* NestedQueue_commit.
QueueArgs(op) ==
    CASE op = "write_acquire" ->
           [count_idx |-> NESTED_QUEUE_COUNT_WRITABLE,
            acquire_idx |-> NESTED_QUEUE_WRITE_ALLOCATED,
            commit_idx |-> NESTED_QUEUE_WRITE_COMMITTED,
            order |-> q.write_order]
      [] op = "read_acquire" ->
           [count_idx |-> NESTED_QUEUE_COUNT_READABLE,
            acquire_idx |-> NESTED_QUEUE_READ_ACQUIRED,
            commit_idx |-> NESTED_QUEUE_READ_RELEASED,
            order |-> q.read_order]
      [] op = "write_commit" ->
           [count_idx |-> NESTED_QUEUE_COUNT_READABLE,
            acquire_idx |-> NESTED_QUEUE_WRITE_ALLOCATED,
            commit_idx |-> NESTED_QUEUE_WRITE_COMMITTED,
            order |-> q.write_order]
      [] op = "read_release" ->
           [count_idx |-> NESTED_QUEUE_COUNT_WRITABLE,
            acquire_idx |-> NESTED_QUEUE_READ_ACQUIRED,
            commit_idx |-> NESTED_QUEUE_READ_RELEASED,
            order |-> q.read_order]

IsAcquire(op) == op \in {"write_acquire", "read_acquire"}
IsCommit(op) == op \in {"write_commit", "read_release"}

\* NestedQueue_acquire: if (!old_indexes[count_idx]) { return NULL; }
AcquireFailsMutant(old_indexes, count_idx) == old_indexes[count_idx] < 0
AcquireFails(old_indexes, count_idx) == old_indexes[count_idx] = 0

\* NestedQueue_acquire: new_indexes, built from old_indexes.
AcquireNewMutant(old_indexes, count_idx, acquire_idx) ==
    [old_indexes EXCEPT ![acquire_idx] = (old_indexes[acquire_idx] + 1) % q.n_elems]
AcquireNew(old_indexes, count_idx, acquire_idx) ==
    [old_indexes EXCEPT
        ![acquire_idx] = (old_indexes[acquire_idx] + 1) % q.n_elems,
        ![count_idx] = old_indexes[count_idx] - 1]

\* NestedQueue_commit, NESTED order: new_indexes.  The commit index is
\* assigned first; the count is then advanced by a difference that reads the
\* commit index just assigned.
CommitNestedNew(old_indexes, commit_idx, acquire_idx, count_idx) ==
    LET moved == [old_indexes EXCEPT ![commit_idx] = old_indexes[acquire_idx]]
    IN [moved EXCEPT ![count_idx] =
           moved[count_idx]
             + ((old_indexes[acquire_idx] + q.n_elems - moved[commit_idx])
                  % q.n_elems)]

\* NestedQueue_commit, FCFS order: new_indexes.
CommitFcfsNewMutant(old_indexes, commit_idx, count_idx) ==
    [old_indexes EXCEPT ![commit_idx] = old_indexes[commit_idx] + 1,
                        ![count_idx] = old_indexes[count_idx] + 1]
CommitFcfsNew(old_indexes, commit_idx, count_idx) ==
    [old_indexes EXCEPT ![commit_idx] = (old_indexes[commit_idx] + 1) % q.n_elems,
                        ![count_idx] = old_indexes[count_idx] + 1]

\* ------------------------------------------------------------- iterator
\* struct NestedQueueIterator: current_i and end_i (queue is q).  History:
\*   kind      "write" or "read", "none" while no iterator exists
\*   in_flight the slots that were acquired and not yet committed
\*             (released) when the iterator was made, oldest first
\*   yielded   the slots NestedQueueIterator_next has returned
\*   done      NestedQueueIterator_next has returned NULL
NoIterator ==
    [kind |-> "none", current_i |-> 0, end_i |-> 0,
     in_flight |-> <<>>, yielded |-> <<>>, done |-> FALSE]

\* --------------------------------------------------- frames and history
\* The frame of the queue function a level executes: the entry point called,
\* its slot argument as an index (ptr_to_idx), old_indexes and new_indexes,
\* and (history) the index array when the call was made.
NoFrame ==
    [op |-> "none", idx |-> 0, old_indexes |-> <<>>, new_indexes |-> <<>>,
     pre |-> <<>>]

NoLast ==
    [op |-> "none", slot |-> NULL, ret |-> NULL, pre |-> <<>>, old |-> <<>>,
     new |-> <<>>, moved |-> FALSE, fifo_ok |-> TRUE]

\* gq, the history of the queue:
\*   wq, rq   slots handed out by write_acquire (read_acquire), oldest first,
\*            that the commit (release) index has not advanced past
\*   own      per level, the slots it holds: acquired and not yet passed to
\*            write_commit (w) or read_release (r)
\*   fifo     slots handed out for writing and not yet handed out for
\*            reading, oldest first, with the payload written and whether
\*            write_commit was called for it
\*   mem      the payload each slot holds
\*   last     the call that returned last, until the next call is made: the
\*            index array when it was called (pre), the old_indexes and
\*            new_indexes of its last loop iteration, and whether its
\*            compare-exchange was applied (moved)
\*   bounded, calls   whether the run is one of at most MaxCalls calls, and
\*            the number of calls it has made
\*   capped   whether calls are made only while no index exceeds N; such a
\*            run keeps wq, rq and own only
InitHistory(bounded, capped) ==
    [bounded |-> bounded, calls |-> 0, capped |-> capped,
     wq |-> <<>>, rq |-> <<>>,
     own |-> [l \in Levels |-> [w |-> <<>>, r |-> <<>>]],
     fifo |-> <<>>,
     mem |-> [i \in 0..(q.n_elems - 1) |-> 0],
     last |-> NoLast]

\* The history a run keeps.
Kept(g) ==
    IF gq.capped THEN [g EXCEPT !.fifo = <<>>, !.mem = gq.mem, !.last = NoLast]
    ELSE g

Without(seq, x) == SelectSeq(seq, LAMBDA y : y # x)
Has(seq, x) == \E i \in 1..Len(seq) : seq[i] = x

\* The position in fifo of the entry that slot index i was handed out as
\* last, 0 if there is none.
LastOf(fifo, i) ==
    IF \E k \in 1..Len(fifo) : fifo[k].slot = i
    THEN CHOOSE k \in 1..Len(fifo) :
             fifo[k].slot = i /\ \A m \in 1..Len(fifo) : fifo[m].slot = i => m <= k
    ELSE 0

\* The caller's side of the contract.  A slot passed to write_commit or
\* read_release is one this context acquired and still holds; under FCFS it
\* is the oldest slot outstanding, and a context acquires only if no context
\* it pre-empted is inside a bracket of the same kind (it could not finish
\* its own bracket in order).
OuterBusy(kind) ==
    \E k \in 1..(depth - 1) :
        \/ gq.own[k][kind] # <<>>
        \/ kind = "w" /\ qf[k].op \in {"write_acquire", "write_commit"}
        \/ kind = "r" /\ qf[k].op \in {"read_acquire", "read_release"}

MayCall(op, slot) ==
    /\ gq.bounded => gq.calls < MaxCalls
    /\ gq.capped => \A i \in DOMAIN data : data[i] <= q.n_elems
    /\ CASE op = "write_acquire" ->
              /\ slot = NULL
              /\ Len(gq.wq) <= q.n_elems
              /\ Len(gq.fifo) <= q.n_elems
              /\ q.write_order = "FCFS" => ~OuterBusy("w")
         [] op = "read_acquire" ->
              /\ slot = NULL
              /\ Len(gq.rq) <= q.n_elems
              /\ q.read_order = "FCFS" => ~OuterBusy("r")
         [] op = "write_commit" ->
              /\ slot # NULL
              /\ Has(gq.own[self].w, ptr_to_idx(slot))
              /\ q.write_order = "FCFS" => ptr_to_idx(slot) = Head(gq.wq)
         [] op = "read_release" ->
              /\ slot # NULL
              /\ Has(gq.own[self].r, ptr_to_idx(slot))
              /\ q.read_order = "FCFS" => ptr_to_idx(slot) = Head(gq.rq)

Slots == {idx_to_ptr(i) : i \in 0..(q.n_elems - 1)}

\* History at a call: the caller gives up the slot it passes, and the writer
\* has filled the slot it commits with v.
CallHistory(op, slot, v) ==
    LET i == ptr_to_idx(slot)
        k == LastOf(gq.fifo, i)
        c == IF gq.bounded THEN gq.calls + 1 ELSE gq.calls
    IN CASE op = "write_commit" ->
              [gq EXCEPT !.last = NoLast, !.calls = c,
                         !.own[self].w = Without(@, i),
                         !.mem[i] = v,
                         !.fifo = IF k = 0 THEN @ ELSE [@ EXCEPT ![k].val = v]]
         [] op = "read_release" ->
              [gq EXCEPT !.last = NoLast, !.calls = c,
                         !.own[self].r = Without(@, i)]
         [] OTHER -> [gq EXCEPT !.last = NoLast, !.calls = c]

\* History at a return: ret is the value returned, moved whether the call's
\* compare-exchange was applied.
ReturnHistory(f, ret, old, moved) ==
    LET i == IF IsAcquire(f.op) THEN ptr_to_idx(ret) ELSE f.idx
        nested == QueueArgs(f.op).order = "NESTED"
        k == LastOf(gq.fifo, i)
        head_ok == /\ gq.fifo # <<>>
                   /\ Head(gq.fifo).slot = i
                   /\ Head(gq.fifo).done
                   /\ Head(gq.fifo).val = gq.mem[i]
        lst == [op |-> f.op, slot |-> IF IsCommit(f.op) THEN idx_to_ptr(f.idx) ELSE NULL,
                ret |-> ret, pre |-> f.pre, old |-> old,
                new |-> f.new_indexes, moved |-> moved,
                fifo_ok |-> (f.op = "read_acquire" /\ ret # NULL) => head_ok]
    IN CASE f.op = "write_acquire" /\ ret # NULL ->
              [gq EXCEPT !.last = lst,
                         !.wq = Append(@, i),
                         !.own[self].w = Append(@, i),
                         !.fifo = Append(@, [slot |-> i, val |-> -1, done |-> FALSE])]
         [] f.op = "read_acquire" /\ ret # NULL ->
              [gq EXCEPT !.last = lst,
                         !.rq = Append(@, i),
                         !.own[self].r = Append(@, i),
                         !.fifo = IF @ = <<>> THEN @ ELSE Tail(@)]
         [] f.op = "write_commit" ->
              [gq EXCEPT !.last = lst,
                         !.fifo = IF k = 0 THEN @ ELSE [@ EXCEPT ![k].done = TRUE],
                         !.wq = IF ~moved THEN @
                                ELSE IF nested THEN <<>> ELSE Tail(@)]
         [] f.op = "read_release" ->
              [gq EXCEPT !.last = lst,
                         !.rq = IF ~moved THEN @
                                ELSE IF nested THEN <<>> ELSE Tail(@)]
         [] OTHER -> [gq EXCEPT !.last = lst]

\* ------------------------------------------------- the four entry points
\* NestedQueue_write_acquire, NestedQueue_write_commit,
\* NestedQueue_read_acquire, NestedQueue_read_release: the call, up to the
\* call of Mcas_read(&q->indexes, old_indexes) that starts both loops.
QueueCall(op, slot, v) ==
    /\ depth >= 1
    /\ qf[self].op = "none"
    /\ MayCall(op, slot)
    /\ qf' = [qf EXCEPT ![self] =
                 [NoFrame EXCEPT !.op = op,
                                 !.idx = IF IsCommit(op) THEN ptr_to_idx(slot) ELSE 0,
                                 !.pre = IF gq.capped THEN <<>> ELSE data]]
    /\ ent' = [ent EXCEPT ![self] = ReadEntry]
    /\ loc' = [loc EXCEPT ![self] = StartLocals]
    /\ gq' = Kept(CallHistory(op, slot, v))
    /\ UNCHANGED <<n_elems, data, journal, depth, q, legit, obs, rest>>

NestedQueue_write_acquire == QueueCall("write_acquire", NULL, 0)
NestedQueue_read_acquire == QueueCall("read_acquire", NULL, 0)
NestedQueue_write_commit ==
    \E slot \in Slots, v \in 0..MaxPayload : QueueCall("write_commit", slot, v)
NestedQueue_read_release ==
    \E slot \in Slots : QueueCall("read_release", slot, 0)

\* The queue function of the running level returns ret.
QueueReturn(ret, old, moved) ==
    /\ qf' = [qf EXCEPT ![self] = NoFrame]
    /\ ent' = [ent EXCEPT ![self] = NoEntry]
    /\ loc' = [loc EXCEPT ![self] = NoLocals]
    /\ gq' = Kept(ReturnHistory(qf[self], ret, old, moved))

\* The loop of the queue function goes on: Mcas_compare_exchange(
\* &q->indexes, old_indexes, new_indexes).
QueueCas(old, new) ==
    /\ qf' = [qf EXCEPT ![self].old_indexes = old, ![self].new_indexes = new]
    /\ ent' = [ent EXCEPT ![self] = CasEntry(old, new)]
    /\ loc' = [loc EXCEPT ![self] = StartLocals]
    /\ gq' = gq

\* The compare-exchange failed: the loop starts over with Mcas_read.
QueueRetry ==
    /\ qf' = [qf EXCEPT ![self].old_indexes = <<>>, ![self].new_indexes = <<>>]
    /\ ent' = [ent EXCEPT ![self] = ReadEntry]
    /\ loc' = [loc EXCEPT ![self] = StartLocals]
    /\ gq' = gq

\* assert(old_indexes[commit_idx] == idx) failed: the program is aborted.
QueueAbort ==
    /\ qf' = [qf EXCEPT ![self].op = "aborted"]
    /\ ent' = [ent EXCEPT ![self] = NoEntry]
    /\ loc' = [loc EXCEPT ![self] = NoLocals]
    /\ gq' = gq

\* NestedQueue_acquire after Mcas_read has returned old_indexes.
AcquireAfterRead ==
    /\ Running("return")
    /\ IsAcquire(qf[self].op)
    /\ ent[self].operation = "READ"
    /\ LET a == QueueArgs(qf[self].op)
           old == ent[self].read_dest
       IN IF AcquireFails(old, a.count_idx)
          THEN QueueReturn(NULL, old, FALSE)
          ELSE QueueCas(old, AcquireNew(old, a.count_idx, a.acquire_idx))
    /\ UNCHANGED <<n_elems, data, journal, depth, q, legit, obs, rest>>

\* NestedQueue_acquire after Mcas_compare_exchange has returned.
AcquireAfterCas ==
    /\ Running("return")
    /\ IsAcquire(qf[self].op)
    /\ ent[self].operation = "CAS"
    /\ LET a == QueueArgs(qf[self].op)
           old == qf[self].old_indexes
       IN IF CasResult(ent[self].status)
          THEN QueueReturn(idx_to_ptr(old[a.acquire_idx]), old, TRUE)
          ELSE QueueRetry
    /\ UNCHANGED <<n_elems, data, journal, depth, q, legit, obs, rest>>

\* NestedQueue_commit after Mcas_read has returned old_indexes.
CommitAfterRead ==
    /\ Running("return")
    /\ IsCommit(qf[self].op)
    /\ ent[self].operation = "READ"
    /\ LET a == QueueArgs(qf[self].op)
           old == ent[self].read_dest
           at_edge == old[a.commit_idx] = qf[self].idx
       IN IF a.order = "NESTED"
          THEN IF ~at_edge
               THEN QueueReturn(NULL, old, FALSE)
               ELSE QueueCas(old, CommitNestedNew(old, a.commit_idx,
                                                  a.acquire_idx, a.count_idx))
          ELSE IF ~at_edge
               THEN QueueAbort
               ELSE QueueCas(old, CommitFcfsNew(old, a.commit_idx, a.count_idx))
    /\ UNCHANGED <<n_elems, data, journal, depth, q, legit, obs, rest>>

\* NestedQueue_commit after Mcas_compare_exchange has returned.
CommitAfterCas ==
    /\ Running("return")
    /\ IsCommit(qf[self].op)
    /\ ent[self].operation = "CAS"
    /\ IF CasResult(ent[self].status)
       THEN QueueReturn(NULL, qf[self].old_indexes, TRUE)
       ELSE QueueRetry
    /\ UNCHANGED <<n_elems, data, journal, depth, q, legit, obs, rest>>

\* A step of the MCAS code inside a queue function.
InQueue == UNCHANGED <<q, qf, gq, legit, obs, rest>>

\* --------------------------------------------------------------- SpecQueue
\* The queue as initialised: empty, every slot writable.
QueueIndexes(n) ==
    [i \in 0..(NESTED_QUEUE_NUMBER_OF_INDEXES - 1) |->
        IF i = NESTED_QUEUE_COUNT_WRITABLE THEN n ELSE 0]

Orders == {"NESTED", "FCFS"}

InitQueueWith(n, bounded, capped) ==
    /\ n_elems = NESTED_QUEUE_NUMBER_OF_INDEXES
    /\ data = QueueIndexes(n)
    /\ journal = 0
    /\ depth = 1
    /\ ent = [l \in Levels |-> NoEntry]
    /\ loc = [l \in Levels |-> NoLocals]
    /\ legit = {} /\ obs = <<>>
    /\ \E wo \in Orders, ro \in Orders :
           q = [n_elems |-> n, elem_size |-> ElemSize,
                write_order |-> wo, read_order |-> ro]
    /\ qf = [l \in Levels |-> NoFrame]
    /\ gq = InitHistory(bounded, capped)
    /\ iterator = NoIterator
    /\ iq = <<>>
    /\ NoDoubleBuffer /\ NoMembag /\ NoSlist

InitQueue == InitQueueWith(QueueSize, FALSE, FALSE)

NextQueue ==
    \/ NestedQueue_write_acquire
    \/ NestedQueue_write_commit
    \/ NestedQueue_read_acquire
    \/ NestedQueue_read_release
    \/ AcquireAfterRead
    \/ AcquireAfterCas
    \/ CommitAfterRead
    \/ CommitAfterCas
    \/ LinkCas /\ InQueue
    \/ WalkLoad /\ InQueue
    \/ WalkNext /\ InQueue
    \/ CmLoadStatus /\ InQueue
    \/ CmLoadSwapping /\ InQueue
    \/ CmCompare /\ InQueue
    \/ CmStoreSwapping /\ InQueue
    \/ CmStoreData /\ InQueue
    \/ CmStoreStatus /\ InQueue
    \/ CrLoadStatus /\ InQueue
    \/ CrLoadData /\ InQueue
    \/ CrTestAndSet /\ InQueue
    \/ CrWriteDest /\ InQueue
    \/ CrStoreStatus /\ InQueue
    \/ AssertFirst /\ InQueue
    \/ UnlinkLoad /\ InQueue
    \/ UnlinkStore /\ InQueue
    \/ AssertSecond /\ InQueue

SpecQueue == InitQueue /\ [][NextQueue]_vars

\* --------------------------------------------------------- SpecQueueNested
\* The queue under nested pre-emption: the running context is interrupted at
\* any step by a context that uses the same queue, runs to completion holding
\* nothing at its end, and returns to the interrupted one.

Interrupt ==
    /\ depth >= 1
    /\ depth < MaxDepth
    /\ depth' = depth + 1
    /\ UNCHANGED <<n_elems, data, journal, ent, loc, q, qf, gq, legit, obs, rest>>

InterruptReturn ==
    /\ depth >= 2
    /\ qf[self].op = "none"
    /\ gq.own[self].w = <<>>
    /\ gq.own[self].r = <<>>
    /\ depth' = depth - 1
    /\ UNCHANGED <<n_elems, data, journal, ent, loc, q, qf, gq, legit, obs, rest>>

InitQueueNested == InitQueueWith(NestedQueueSize, TRUE, FALSE)

NextQueueNested ==
    \/ Interrupt
    \/ InterruptReturn
    \/ NestedQueue_write_acquire
    \/ NestedQueue_write_commit
    \/ NestedQueue_read_acquire
    \/ NestedQueue_read_release
    \/ AcquireAfterRead
    \/ AcquireAfterCas
    \/ CommitAfterRead
    \/ CommitAfterCas
    \/ LinkCas /\ InQueue
    \/ WalkLoad /\ InQueue
    \/ WalkNext /\ InQueue
    \/ CmLoadStatus /\ InQueue
    \/ CmLoadSwapping /\ InQueue
    \/ CmCompare /\ InQueue
    \/ CmStatusCas /\ InQueue
    \/ CmStoreSwapping /\ InQueue
    \/ CmStoreData /\ InQueue
    \/ CmStoreStatus /\ InQueue
    \/ CrLoadStatus /\ InQueue
    \/ CrLoadData /\ InQueue
    \/ CrTestAndSet /\ InQueue
    \/ CrWriteDest /\ InQueue
    \/ CrStoreStatus /\ InQueue
    \/ AssertFirst /\ InQueue
    \/ UnlinkLoad /\ InQueue
    \/ UnlinkStore /\ InQueue
    \/ AssertSecond /\ InQueue

SpecQueueNested == InitQueueNested /\ [][NextQueueNested]_vars

\* ------------------------------------------------------- SpecQueueIterator
\* The steps inside Mcas_read and Mcas_compare_exchange.
McasStep ==
    \/ LinkCas \/ WalkLoad \/ WalkNext
    \/ CmLoadStatus \/ CmLoadSwapping \/ CmCompare \/ CmStatusCas
    \/ CmStoreSwapping \/ CmStoreData \/ CmStoreStatus
    \/ CrLoadStatus \/ CrLoadData \/ CrTestAndSet \/ CrWriteDest
    \/ CrStoreStatus
    \/ AssertFirst \/ UnlinkLoad \/ UnlinkStore \/ AssertSecond

\* Number of slots N of the queue in SpecQueueIterator.
IterQueueSize == 2

\* NestedQueueIterator_init_write, NestedQueueIterator_init_read: the call,
\* up to the call of Mcas_read(&q->indexes, indexes).
IteratorInit(kind) ==
    /\ depth >= 1
    /\ qf[self].op = "none"
    /\ iterator.kind = "none"
    /\ qf' = [qf EXCEPT ![self] = [NoFrame EXCEPT !.op = kind]]
    /\ ent' = [ent EXCEPT ![self] = ReadEntry]
    /\ loc' = [loc EXCEPT ![self] = StartLocals]
    /\ gq' = [gq EXCEPT !.last = NoLast]
    /\ UNCHANGED <<n_elems, data, journal, depth, q, legit, obs, rest>>

NestedQueueIterator_init_write == IteratorInit("init_write")
NestedQueueIterator_init_read == IteratorInit("init_read")

\* ... after Mcas_read has returned indexes: the iterator returned.
IteratorAfterRead ==
    /\ Running("return")
    /\ qf[self].op \in {"init_write", "init_read"}
    /\ LET indexes == ent[self].read_dest
           w == qf[self].op = "init_write"
       IN iterator' =
             [kind |-> IF w THEN "write" ELSE "read",
              current_i |-> IF w THEN indexes[NESTED_QUEUE_WRITE_COMMITTED]
                            ELSE indexes[NESTED_QUEUE_READ_RELEASED],
              end_i |-> IF w THEN indexes[NESTED_QUEUE_WRITE_ALLOCATED]
                        ELSE indexes[NESTED_QUEUE_READ_ACQUIRED],
              in_flight |-> IF w THEN gq.wq ELSE gq.rq,
              yielded |-> <<>>, done |-> FALSE]
    /\ qf' = [qf EXCEPT ![self] = NoFrame]
    /\ ent' = [ent EXCEPT ![self] = NoEntry]
    /\ loc' = [loc EXCEPT ![self] = NoLocals]
    /\ UNCHANGED <<n_elems, data, journal, depth, q, gq, legit, obs,
                   dbvars, bagvars, slvars, iq>>

\* NestedQueueIterator_next(&iterator), until it has returned NULL.
NestedQueueIterator_next ==
    /\ iterator.kind # "none"
    /\ ~iterator.done
    /\ iterator' =
          IF iterator.current_i # iterator.end_i
          THEN [iterator EXCEPT
                   !.yielded = Append(@, idx_to_ptr(iterator.current_i)),
                   !.current_i = (iterator.current_i + 1) % q.n_elems]
          ELSE [iterator EXCEPT !.done = TRUE]
    /\ UNCHANGED <<n_elems, data, journal, depth, ent, loc, q, qf, gq, legit,
                   obs, dbvars, bagvars, slvars, iq>>

\* The iterator goes out of scope.
IteratorEnd ==
    /\ iterator.done
    /\ iterator' = NoIterator
    /\ UNCHANGED <<n_elems, data, journal, depth, ent, loc, q, qf, gq, legit,
                   obs, dbvars, bagvars, slvars, iq>>

\* The caller makes no queue call while it iterates.
NoIteration == iterator.kind = "none"

InitQueueIterator == InitQueueWith(IterQueueSize, FALSE, FALSE)

NextQueueIterator ==
    \/ NextQueue /\ NoIteration
    \/ NestedQueueIterator_init_write
    \/ NestedQueueIterator_init_read
    \/ IteratorAfterRead
    \/ NestedQueueIterator_next
    \/ IteratorEnd

SpecQueueIterator == InitQueueIterator /\ [][NextQueueIterator]_vars

\* ----------------------------------------------------------- SpecQueueLive
\* Number of slots N of the queue in SpecQueueLive.
LiveQueueSize == 1

\* The steps inside a queue function.
QueueStep ==
    \/ AcquireAfterRead \/ AcquireAfterCas
    \/ CommitAfterRead \/ CommitAfterCas
    \/ McasStep /\ InQueue

\* Scheduling assumed for termination: the processor executes the running
\* context, and a pre-empted context resumes when the context above it
\* returns.  A context is not enabled while another runs above it, hence
\* strong fairness.
QueueFairness == \A l \in Levels : SF_vars(depth = l /\ QueueStep)

\* Calls without a bound on their number, made while no index exceeds N;
\* one side of the queue is NESTED and the other FCFS, so that the loops of
\* NestedQueue_acquire and both loops of NestedQueue_commit run.
InitQueueLive ==
    /\ InitQueueWith(LiveQueueSize, FALSE, TRUE)
    /\ q.write_order # q.read_order

SpecQueueLive == InitQueueLive /\ [][NextQueueNested]_vars /\ QueueFairness

\* ------------------------------------------------------------ queue claims
AtRest == \A l \in Levels : qf[l].op = "none"
WA == NESTED_QUEUE_WRITE_ALLOCATED
WC == NESTED_QUEUE_WRITE_COMMITTED
RA == NESTED_QUEUE_READ_ACQUIRED
RR == NESTED_QUEUE_READ_RELEASED
CW == NESTED_QUEUE_COUNT_WRITABLE
CR == NESTED_QUEUE_COUNT_READABLE

\* C5: between calls, COUNT_READABLE + COUNT_WRITABLE + in_flight_read +
\* in_flight_write = N, where a slot is in flight from the acquire that
\* handed it out until the commit (release) index advances past it, and
\* neither count is negative.
C5_CountsAddUp ==
    AtRest =>
        /\ data[CR] >= 0
        /\ data[CW] >= 0
        /\ data[CR] + data[CW] + Len(gq.rq) + Len(gq.wq) = q.n_elems

\* C6: under NESTED order a write_commit of the slot at WRITE_COMMITTED
\* leaves WRITE_COMMITTED at WRITE_ALLOCATED and COUNT_READABLE larger by
\* (old WRITE_ALLOCATED - old WRITE_COMMITTED) mod N, and a write_commit of
\* any other slot changes nothing; the same for read_release with
\* READ_RELEASED, READ_ACQUIRED and COUNT_WRITABLE.
NestedCommitAsStated(op) ==
    LET a == QueueArgs(op)
        last == gq.last
        n == q.n_elems
        adv == (last.pre[a.acquire_idx] + n - last.pre[a.commit_idx]) % n
    IN (last.op = op /\ a.order = "NESTED") =>
          IF last.pre[a.commit_idx] = ptr_to_idx(last.slot)
          THEN data = [last.pre EXCEPT
                          ![a.commit_idx] = last.pre[a.acquire_idx],
                          ![a.count_idx] = last.pre[a.count_idx] + adv]
          ELSE data = last.pre

C6_NestedCommitDrains ==
    NestedCommitAsStated("write_commit") /\ NestedCommitAsStated("read_release")

\* C7: under FCFS order, with slots committed in the order they were
\* acquired, the assertion of write_commit never fails, and a write_commit
\* advances WRITE_COMMITTED by one modulo N, adds one to COUNT_READABLE and
\* leaves the other four words as they were; the same for read_release with
\* READ_RELEASED and COUNT_WRITABLE.
FcfsCommitAdvancesByOne(op) ==
    LET a == QueueArgs(op)
        last == gq.last
    IN /\ (a.order = "FCFS") => \A l \in Levels : qf[l].op # "aborted"
       /\ (last.op = op /\ a.order = "FCFS") =>
             /\ last.moved
             /\ data = [last.pre EXCEPT
                           ![a.commit_idx] = (last.pre[a.commit_idx] + 1) % q.n_elems,
                           ![a.count_idx] = last.pre[a.count_idx] + 1]

C7_FcfsCommit ==
    FcfsCommitAdvancesByOne("write_commit") /\ FcfsCommitAdvancesByOne("read_release")

\* A write_commit under FCFS that wrapped WRITE_COMMITTED around to 0, and
\* a read_release before it.
C7_Witness ==
    /\ q.write_order = "FCFS"
    /\ q.read_order = "FCFS"
    /\ gq.last.op = "write_commit"
    /\ gq.last.pre[WC] = q.n_elems - 1
    /\ data[WC] = 0
    /\ data[RR] > 0

\* C8: write_acquire returns NULL exactly when COUNT_WRITABLE is 0 in the
\* index vector it read, and then changes no index word; otherwise it
\* returns the slot at the WRITE_ALLOCATED it read, advances WRITE_ALLOCATED
\* by one modulo N, takes one off COUNT_WRITABLE and changes no other word.
\* The same for read_acquire with COUNT_READABLE and READ_ACQUIRED.
AcquireAsStated(op) ==
    LET a == QueueArgs(op)
        last == gq.last
    IN last.op = op =>
          /\ last.old = last.pre
          /\ (last.ret = NULL) <=> (last.old[a.count_idx] = 0)
          /\ last.ret = NULL => ~last.moved /\ data = last.pre
          /\ last.ret # NULL =>
                /\ last.ret = idx_to_ptr(last.old[a.acquire_idx])
                /\ data = [last.old EXCEPT
                              ![a.acquire_idx] = (last.old[a.acquire_idx] + 1) % q.n_elems,
                              ![a.count_idx] = last.old[a.count_idx] - 1]

C8_Acquire == AcquireAsStated("write_acquire") /\ AcquireAsStated("read_acquire")

\* write_acquire returned NULL on a queue whose slots are all taken, after a
\* read_acquire had returned a slot.
C8_Witness ==
    /\ gq.last.op = "write_acquire"
    /\ gq.last.ret = NULL
    /\ data[CW] = 0
    /\ data[RA] > 0

\* C9: every read_acquire that returns a slot returns the slot that the
\* oldest unread write_acquire returned, after write_commit was called for
\* it and with the payload the writer put there; and a read_acquire made
\* when the oldest unread slot has been committed returns it, not NULL.
C9_FifoRoundTrip ==
    /\ gq.last.fifo_ok
    /\ (gq.last.op = "read_acquire" /\ gq.last.ret = NULL) =>
          (gq.fifo = <<>> \/ ~Head(gq.fifo).done)

\* C10: no slot has two holders: the slots that the contexts hold (acquired
\* for writing or for reading, and not yet passed to write_commit or
\* read_release) are all different.
AllHeld(l) == gq.own[l].w \o gq.own[l].r
HoldersOf(i) ==
    {<<l, k>> \in Levels \X (1..(2 * (QueueSize + 2))) :
        k <= Len(AllHeld(l)) /\ AllHeld(l)[k] = i}

C10_NoSlotHeldTwice ==
    \A i \in 0..(q.n_elems - 1) : Cardinality(HoldersOf(i)) <= 1

\* ========================================================== double buffer
\* DoubleBuffer (double_buffer.c).  The repository holds the file in two
\* revisions, which differ in what write_commit and read_release do with a
\* NULL slot: src/double_buffer.c stores and clears (counts down) whatever it
\* is given, the other revision returns at once.  Init picks the revision.

\* Deepest interrupt nesting explored in SpecDb.
MaxDbDepth == 3
\* Deepest nesting in SpecDbLive.
LiveDbDepth == 2
\* Deepest nesting and largest number of committed writes in SpecDbTime.
TimeDbDepth == 2
MaxDbCommits == 2
DbLevels == 1..MaxDbDepth

Revisions == {"double_buffer.c", "nullcheck"}

\* The two slots of db->data.
DbSlots == {db.data, db.data + db.elem_size}

DbNoFrame ==
    [op |-> "none", pc |-> "none", slot |-> NULL, last |-> NULL,
     first |-> FALSE, lc |-> NULL, clean |-> TRUE]

DbNoCall ==
    [op |-> "none", slot |-> NULL, ret |-> NULL,
     first |-> FALSE, lc |-> NULL, clean |-> TRUE]

NotHeld == [st |-> "none", slot |-> NULL]

\* gdb, the history of the double buffer:
\*   w, r   per level, the bracket it has open: for writing "held" from the
\*          return of write_acquire to the call of write_commit ("denied"
\*          after a NULL), for reading "held" from the return of
\*          read_acquire to the call of read_release
\*   last_commit   the slot of the write_commit that returned last
\*   call   the call that returned in the last step: its argument and
\*          result, whether it ran without being pre-empted (clean), for a
\*          read_acquire whether it was the first reader and which commit
\*          had returned last when it was called (lc)
\*   t      the age of what the slots hold, kept if t.on:
\*          commits   the number of writes committed
\*          mem       per slot, the number of the committed write whose
\*                    value it holds, 0 for the initial value
\*          got       per level, the number of the write whose value the
\*                    slot held that its last read_acquire returned
\*          floor     per level, `released` when its read_acquire was called
\*          released  the largest `got` of any reader that has released
NoTime == [on |-> FALSE]

TimeZero ==
    [on |-> TRUE, commits |-> 0,
     mem |-> [s \in DbSlots |-> 0],
     got |-> [l \in DbLevels |-> 0],
     floor |-> [l \in DbLevels |-> 0],
     released |-> 0]

\* The write of the value committed with `slot` becomes the newest.
TimeCommit(slot) ==
    IF gdb.t.on /\ slot # NULL
    THEN [gdb.t EXCEPT !.commits = @ + 1, !.mem[slot] = gdb.t.commits + 1]
    ELSE gdb.t

\* A read_acquire is called; it returns ret; its slot is released.
TimeReadCall ==
    IF gdb.t.on THEN [gdb.t EXCEPT !.floor[self] = gdb.t.released] ELSE gdb.t

TimeReadReturn(ret) ==
    IF gdb.t.on /\ ret # NULL
    THEN [gdb.t EXCEPT !.got[self] = gdb.t.mem[ret]]
    ELSE gdb.t

TimeRelease(slot) ==
    IF gdb.t.on /\ slot # NULL /\ gdb.t.got[self] > gdb.t.released
    THEN [gdb.t EXCEPT !.released = gdb.t.got[self]]
    ELSE gdb.t

\* A run that keeps t makes at most MaxDbCommits writes.
MayWrite == gdb.t.on => gdb.t.commits < MaxDbCommits

DbRunning(op, pc) ==
    /\ depth >= 1
    /\ dbf[self].op = op
    /\ dbf[self].pc = pc

DbIdle == depth >= 1 /\ dbf[self].op = "none"

DbOthers == UNCHANGED <<mcasvars, bagvars, slvars>>

\* The call that returned last is remembered for one step.
DbForget == [gdb EXCEPT !.call = DbNoCall]

\* The call of the running level returns ret.
DbReturn(f, ret) ==
    /\ dbf' = [dbf EXCEPT ![self] = DbNoFrame]
    /\ gdb' = [gdb EXCEPT
                  !.call = [op |-> f.op, slot |-> f.slot, ret |-> ret,
                            first |-> f.first, lc |-> f.lc,
                            clean |-> f.clean],
                  !.w[self] = CASE f.op = "write_acquire" ->
                                     IF ret = NULL
                                     THEN [st |-> "denied", slot |-> NULL]
                                     ELSE [st |-> "held", slot |-> ret]
                                [] f.op = "write_commit" -> NotHeld
                                [] OTHER -> @,
                  !.r[self] = CASE f.op = "read_acquire" ->
                                     [st |-> "held", slot |-> ret]
                                [] OTHER -> @,
                  !.last_commit = IF f.op = "write_commit" /\ f.slot # NULL
                                  THEN f.slot ELSE @,
                  !.t = IF f.op = "read_acquire" THEN TimeReadReturn(ret)
                        ELSE @]

\* The frame a call starts with.
DbCall(op, slot) ==
    [DbNoFrame EXCEPT !.op = op, !.slot = slot, !.lc = gdb.last_commit]

\* if (atomic_flag_test_and_set(&db->write_mutex)) { return NULL; }
DoubleBuffer_write_acquire ==
    /\ DbIdle
    /\ gdb.w[self].st \in {"none", "denied"}
    /\ MayWrite
    /\ db' = [db EXCEPT !.write_mutex = TRUE]
    /\ IF db.write_mutex
       THEN DbReturn(DbCall("write_acquire", NULL), NULL)
       ELSE /\ dbf' = [dbf EXCEPT ![self] =
                          [DbCall("write_acquire", NULL) EXCEPT !.pc = "wa_load"]]
            /\ gdb' = [gdb EXCEPT !.call = DbNoCall]
    /\ UNCHANGED depth
    /\ DbOthers

\* last_selected = atomic_load(&db->selected_read);
WaLoad ==
    /\ DbRunning("write_acquire", "wa_load")
    /\ dbf' = [dbf EXCEPT ![self].last = db.selected_read,
                          ![self].pc = "wa_exchange"]
    /\ gdb' = DbForget
    /\ UNCHANGED <<db, depth>>
    /\ DbOthers

\* The slot that is not last_selected.
OtherSlotMutant(last_selected) == last_selected
OtherSlot(last_selected) ==
    IF last_selected = db.data THEN db.data + db.elem_size ELSE db.data

\* atomic_exchange(object, desired): the value object holds afterwards.
ExchangedMutant(current, desired) == current
Exchanged(current, desired) == desired

\* while (last_selected != atomic_exchange(&db->next_read, last_selected));
\* return acquired;
WaExchange ==
    /\ DbRunning("write_acquire", "wa_exchange")
    /\ db' = [db EXCEPT !.next_read = Exchanged(db.next_read, dbf[self].last)]
    /\ IF db.next_read = dbf[self].last
       THEN DbReturn(dbf[self], OtherSlot(dbf[self].last))
       ELSE /\ dbf' = [dbf EXCEPT ![self].pc = "wa_load"]
            /\ gdb' = DbForget
    /\ UNCHANGED depth
    /\ DbOthers

\* The slots a context passes to write_commit: the one it acquired, or
\* NULL after a write_acquire that returned NULL.
CommitArg(slot) ==
    \/ gdb.w[self].st = "held" /\ slot = gdb.w[self].slot
    \/ gdb.w[self].st = "denied" /\ slot = NULL

\* Whether the revision returns at once for this slot.
ReturnsAtOnce(slot) == db.revision = "nullcheck" /\ slot = NULL

\* if (slot == NULL) return;  atomic_store(&db->next_read, slot);
DoubleBuffer_write_commit ==
    /\ DbIdle
    /\ \E slot \in DbSlots \cup {NULL} :
          /\ CommitArg(slot)
          /\ IF ReturnsAtOnce(slot)
             THEN /\ DbReturn(DbCall("write_commit", slot), NULL)
                  /\ db' = db
             ELSE /\ db' = [db EXCEPT !.next_read = slot]
                  /\ dbf' = [dbf EXCEPT ![self] =
                                [DbCall("write_commit", slot) EXCEPT !.pc = "wc_clear"]]
                  /\ gdb' = [gdb EXCEPT !.call = DbNoCall, !.w[self] = NotHeld,
                                        !.t = TimeCommit(slot)]
    /\ UNCHANGED depth
    /\ DbOthers

\* atomic_flag_clear(&db->write_mutex);
WcClear ==
    /\ DbRunning("write_commit", "wc_clear")
    /\ db' = [db EXCEPT !.write_mutex = FALSE]
    /\ DbReturn(dbf[self], NULL)
    /\ UNCHANGED depth
    /\ DbOthers

\* if (0 == atomic_fetch_add(&db->n_readers, 1))
DoubleBuffer_read_acquire ==
    /\ DbIdle
    /\ gdb.r[self].st = "none"
    /\ db' = [db EXCEPT !.n_readers = db.n_readers + 1]
    /\ dbf' = [dbf EXCEPT ![self] =
                  [DbCall("read_acquire", NULL) EXCEPT
                      !.first = (db.n_readers = 0),
                      !.pc = IF db.n_readers = 0 THEN "ra_load" ELSE "ra_return"]]
    /\ gdb' = [gdb EXCEPT !.call = DbNoCall, !.t = TimeReadCall]
    /\ UNCHANGED depth
    /\ DbOthers

\* last_next_read = atomic_load(&db->next_read);
RaLoad ==
    /\ DbRunning("read_acquire", "ra_load")
    /\ dbf' = [dbf EXCEPT ![self].last = db.next_read,
                          ![self].pc = "ra_exchange"]
    /\ gdb' = DbForget
    /\ UNCHANGED <<db, depth>>
    /\ DbOthers

\* while (last_next_read
\*        != atomic_exchange(&db->selected_read, last_next_read));
RaExchange ==
    /\ DbRunning("read_acquire", "ra_exchange")
    /\ db' = [db EXCEPT !.selected_read =
                            Exchanged(db.selected_read, dbf[self].last)]
    /\ dbf' = [dbf EXCEPT ![self].pc = IF db.selected_read = dbf[self].last
                                       THEN "ra_return" ELSE "ra_load"]
    /\ gdb' = DbForget
    /\ UNCHANGED depth
    /\ DbOthers

\* return atomic_load(&db->selected_read);
RaReturn ==
    /\ DbRunning("read_acquire", "ra_return")
    /\ DbReturn(dbf[self], db.selected_read)
    /\ UNCHANGED <<db, depth>>
    /\ DbOthers

\* if (slot == NULL) return;  atomic_fetch_sub(&db->n_readers, 1);
ReleaseCountMutant(n_readers, slot) == n_readers
ReleaseCount(n_readers, slot) ==
    IF ReturnsAtOnce(slot) THEN n_readers ELSE n_readers - 1

DoubleBuffer_read_release ==
    /\ DbIdle
    /\ gdb.r[self].st = "held"
    /\ LET slot == gdb.r[self].slot
       IN /\ db' = [db EXCEPT !.n_readers = ReleaseCount(db.n_readers, slot)]
          /\ dbf' = dbf
          /\ gdb' = [gdb EXCEPT
                        !.r[self] = NotHeld,
                        !.t = TimeRelease(slot),
                        !.call = [DbNoCall EXCEPT !.op = "read_release",
                                                  !.slot = slot]]
    /\ UNCHANGED depth
    /\ DbOthers

\* A nested context pre-empts the running one ...
DbInterrupt ==
    /\ depth >= 1
    /\ depth < gdb.levels
    /\ depth' = depth + 1
    /\ dbf' = [dbf EXCEPT ![self].clean = FALSE]
    /\ gdb' = DbForget
    /\ UNCHANGED db
    /\ DbOthers

\* ... and returns, every bracket it opened closed.
DbInterruptReturn ==
    /\ depth >= 2
    /\ dbf[self].op = "none"
    /\ gdb.w[self].st \in {"none", "denied"}
    /\ gdb.r[self].st = "none"
    /\ depth' = depth - 1
    /\ gdb' = [gdb EXCEPT !.w[self] = NotHeld, !.call = DbNoCall]
    /\ UNCHANGED <<db, dbf>>
    /\ DbOthers

\* DOUBLE_BUFFER_STATIC_INIT(p_elem_size, p_data_array); at most `levels`
\* contexts are nested, and the age of the slots is kept if `timed`.
InitDbHistory(levels, timed) ==
    /\ \E rev \in Revisions :
          db = [data |-> 0, elem_size |-> ElemSize,
                selected_read |-> 0, next_read |-> 0,
                n_readers |-> 0, write_mutex |-> FALSE,
                revision |-> rev]
    /\ dbf = [l \in DbLevels |-> DbNoFrame]
    /\ gdb = [w |-> [l \in DbLevels |-> NotHeld],
              r |-> [l \in DbLevels |-> NotHeld],
              last_commit |-> NULL,
              levels |-> levels,
              t |-> IF timed THEN TimeZero ELSE NoTime,
              call |-> DbNoCall]
    /\ depth = 1
    /\ NoMcas /\ NoMembag /\ NoSlist

InitDbWith(levels) == InitDbHistory(levels, FALSE)

InitDb == InitDbWith(MaxDbDepth)

NextDb ==
    \/ DoubleBuffer_write_acquire
    \/ WaLoad
    \/ WaExchange
    \/ DoubleBuffer_write_commit
    \/ WcClear
    \/ DoubleBuffer_read_acquire
    \/ RaLoad
    \/ RaExchange
    \/ RaReturn
    \/ DoubleBuffer_read_release
    \/ DbInterrupt
    \/ DbInterruptReturn

SpecDb == InitDb /\ [][NextDb]_vars

\* ---- termination ----------------------------------------------------
\* The steps inside a call.
DbStep == WaLoad \/ WaExchange \/ WcClear \/ RaLoad \/ RaExchange \/ RaReturn

\* Scheduling assumed for termination: the processor executes the running
\* context, and a pre-empted context resumes when the context above it
\* returns.  A context is not enabled while another runs above it, hence
\* strong fairness.
DbFairness == \A l \in 1..LiveDbDepth : SF_vars(depth = l /\ DbStep)

InitDbLive == InitDbWith(LiveDbDepth)

SpecDbLive == InitDbLive /\ [][NextDb]_vars /\ DbFairness

\* ---- the age of what readers obtain -----------------------------------
InitDbTime == InitDbHistory(TimeDbDepth, TRUE)

SpecDbTime == InitDbTime /\ [][NextDb]_vars

\* ----------------------------------------------------- double buffer claims
Writers == {l \in DbLevels : gdb.w[l].st = "held"}
Readers == {l \in DbLevels : gdb.r[l].st = "held"}

\* C11: the slot a writer holds between write_acquire and write_commit is
\* not a slot a reader holds between read_acquire and read_release, and
\* while n_readers > 0 it is not the slot selected_read points to.
C11_ReaderSafety ==
    \A lw \in Writers :
        /\ \A lr \in Readers : gdb.r[lr].slot # gdb.w[lw].slot
        /\ db.n_readers > 0 => db.selected_read # gdb.w[lw].slot

\* C12: at most one context holds a writable slot, the lock is set as long
\* as it does, and a write_acquire made while the lock is set returns NULL
\* and leaves selected_read, next_read and n_readers as they were.
AcquireDenied == gdb'.call.op = "write_acquire" /\ gdb'.call.ret = NULL
AcquireBegins ==
    /\ depth' = depth
    /\ dbf[self].op = "none"
    /\ dbf'[self].op = "write_acquire" \/ gdb'.call.op = "write_acquire"

C12_WriterExclusion ==
    /\ [](Cardinality(Writers) <= 1)
    /\ [](\A l \in Writers : db.write_mutex)
    /\ [][/\ (AcquireBegins /\ db.write_mutex) => AcquireDenied
          /\ AcquireDenied =>
                /\ db.write_mutex
                /\ db'.selected_read = db.selected_read
                /\ db'.next_read = db.next_read
                /\ db'.n_readers = db.n_readers]_vars

\* C13: a read_acquire that moves n_readers from 0 to 1 after a
\* write_commit has returned obtains the slot of the most recent
\* write_commit that has returned.
C13_Freshness ==
    (gdb.call.op = "read_acquire" /\ gdb.call.first /\ gdb.call.lc # NULL) =>
        gdb.call.ret \in {gdb.call.lc, gdb.last_commit}

\* C14: no step of DoubleBuffer_write_commit(db, NULL) changes
\* selected_read, next_read, n_readers or the write lock.
NullCommitStep ==
    /\ depth' = depth
    /\ \/ dbf[self].op = "none" /\ dbf'[self].op = "write_commit"
                                /\ dbf'[self].slot = NULL
       \/ dbf[self].op = "write_commit" /\ dbf[self].slot = NULL
       \/ gdb'.call.op = "write_commit" /\ gdb'.call.slot = NULL

C14_NullCommitIsNoOp == [][NullCommitStep => db' = db]_vars

\* C15: when no operation is in flight (write lock clear, n_readers = 0, no
\* context inside a function), selected_read = next_read and both point to
\* one of the two slots.
DbAtRest ==
    /\ ~db.write_mutex
    /\ db.n_readers = 0
    /\ \A l \in DbLevels : dbf[l].op = "none"

C15_RestInvariant ==
    DbAtRest =>
        /\ db.selected_read = db.next_read
        /\ db.selected_read \in DbSlots
        /\ db.next_read \in DbSlots

\* C32: a reader that calls read_acquire after a reader has released the
\* slot of the i-th committed write obtains a slot that holds the value of
\* the i-th or a later committed write.
C32_NoGoingBack ==
    (gdb.call.op = "read_acquire" /\ gdb.call.ret # NULL) =>
        gdb.t.got[depth] >= gdb.t.floor[depth]

\* =====================================================================
\* Memory bag (src/src/membag.c, src/src/membag.h)
\* =====================================================================
\* Number of slots N of the bag.
BagSize == 3
\* Deepest nesting of contexts that use the bag.
MaxBagDepth == 3

BagLevels == 1..MaxBagDepth
BagIndexes == 0..(bag.n_elems - 1)

\* (char *)membag->data + (membag->elem_size * i)
SlotPtr(i) == bag.data + bag.elem_size * i
\* ((char *)element - (char *)membag->data) / membag->elem_size
SlotIdx(element) == (element - bag.data) \div bag.elem_size

\* Locals of a call (op, pc, i, idx) and what the call saw when it began:
\*   clean   not pre-empted so far
\*   quiet   no other context was inside a bag function when it began
\*   held0   the slots held when it began
\*   pre     n_free and the flags when it began
\*   after   the slot freed by the call completed just before, if that was a
\*           release made with every slot held
\*   tests   flags tested so far by the scan
BagNoFrame ==
    [op |-> "none", pc |-> "none", i |-> 0, idx |-> 0, clean |-> TRUE,
     quiet |-> TRUE, held0 |-> {}, pre |-> <<>>, after |-> NULL, tests |-> 0]

BagNoCall ==
    [op |-> "none", ret |-> NULL, clean |-> TRUE, quiet |-> TRUE,
     held0 |-> {}, pre |-> <<>>, after |-> NULL, tests |-> 0]

BagRunning(op, pc) ==
    /\ depth >= 1
    /\ bagf[self].op = op
    /\ bagf[self].pc = pc

BagIdle == depth >= 1 /\ bagf[self].op = "none"

BagOthers == UNCHANGED <<mcasvars, dbvars, slvars>>

\* Slots returned by Membag_acquire and not yet handed to Membag_release.
Held == {s \in BagIndexes : gbag.held[s] > 0}

Quiet == \A l \in BagLevels : bagf[l].op = "none"

BagSnapshot == [n_free |-> bag.n_free, alloc_status |-> bag.alloc_status]

BagCall(op) ==
    [BagNoFrame EXCEPT !.op = op, !.quiet = Quiet, !.held0 = Held,
                       !.pre = BagSnapshot, !.after = gbag.freed]

\* The call of the running context returns ret.
BagReturn(f, ret, held) ==
    /\ bagf' = [bagf EXCEPT ![self] = BagNoFrame]
    /\ gbag' = [held |-> held,
                freed |-> IF /\ f.op = "release" /\ f.pc = "add" /\ f.quiet /\ f.clean
                             /\ f.held0 = BagIndexes /\ f.idx \in BagIndexes
                          THEN SlotPtr(f.idx) ELSE NULL,
                call |-> [op |-> f.op, ret |-> ret, clean |-> f.clean,
                          quiet |-> f.quiet, held0 |-> f.held0,
                          pre |-> f.pre, after |-> f.after,
                          tests |-> f.tests]]

BagForget == [gbag EXCEPT !.call = BagNoCall]

\* int acquired = atomic_fetch_sub(&membag->n_free, 1);
\* if (!(acquired > 0)) ... else { size_t i = 0; ...
Membag_acquire ==
    /\ BagIdle
    /\ LET acquired == bag.n_free
       IN  /\ bag' = [bag EXCEPT !.n_free = bag.n_free - 1]
           /\ bagf' = [bagf EXCEPT ![self] =
                 [BagCall("acquire") EXCEPT
                     !.pc = IF ~(acquired > 0) THEN "undo" ELSE "scan"]]
    /\ gbag' = [BagForget EXCEPT !.freed = NULL]
    /\ UNCHANGED depth
    /\ BagOthers

\* atomic_fetch_add(&membag->n_free, 1);   (restore the failed reservation)
AfterUndoMutant(n_free) == n_free
AfterUndo(n_free) == n_free + 1

\* atomic_fetch_add(&membag->n_free, 1); return NULL;
AcUndo ==
    /\ BagRunning("acquire", "undo")
    /\ bag' = [bag EXCEPT !.n_free = AfterUndo(bag.n_free)]
    /\ BagReturn(bagf[self], NULL, gbag.held)
    /\ UNCHANGED depth
    /\ BagOthers

\* i = (i + 1) % membag->n_elems;
NextIndexMutant(i) == i
NextIndex(i) == (i + 1) % bag.n_elems

\* The value atomic_flag_test_and_set(&membag->alloc_status[i]) returns.
FlagWasSetMutant(i) == FALSE
FlagWasSet(i) == bag.alloc_status[i]

\* while (atomic_flag_test_and_set(&membag->alloc_status[i])) { i = ... }
\* return (char *)membag->data + (membag->elem_size * i);
AcScan ==
    /\ BagRunning("acquire", "scan")
    /\ LET f == bagf[self]
           i == f.i
           g == [f EXCEPT !.tests = IF f.tests < bag.n_elems + 1
                                    THEN f.tests + 1 ELSE f.tests]
       IN  IF FlagWasSet(i)
           THEN /\ bagf' = [bagf EXCEPT ![self] = [g EXCEPT !.i = NextIndex(i)]]
                /\ gbag' = BagForget
                /\ UNCHANGED bag
           ELSE /\ bag' = [bag EXCEPT !.alloc_status[i] = TRUE]
                /\ BagReturn(g, SlotPtr(i),
                             [gbag.held EXCEPT ![i] = gbag.held[i] + 1])
    /\ UNCHANGED depth
    /\ BagOthers

\* Elements a caller may pass to Membag_release: NULL, or a slot it holds
\* (no slot is released twice).
Releasable == {NULL} \cup {SlotPtr(s) : s \in Held}

\* if (element == NULL) return;
\* idx = ...; atomic_flag_clear(&membag->alloc_status[idx]);
Membag_release ==
    /\ BagIdle
    /\ \E element \in Releasable :
          IF element = NULL
          THEN /\ BagReturn(BagCall("release"), NULL, gbag.held)
               /\ UNCHANGED bag
          ELSE LET idx == SlotIdx(element)
               IN  /\ bag' = [bag EXCEPT !.alloc_status[idx] = FALSE]
                   /\ bagf' = [bagf EXCEPT ![self] =
                         [BagCall("release") EXCEPT !.pc = "add", !.idx = idx]]
                   /\ gbag' = [BagForget EXCEPT
                                  !.held[idx] = gbag.held[idx] - 1,
                                  !.freed = NULL]
    /\ UNCHANGED depth
    /\ BagOthers

\* atomic_fetch_add(&membag->n_free, 1);   (the released slot is free)
AfterReleaseMutant(n_free) == n_free
AfterRelease(n_free) == n_free + 1

\* atomic_fetch_add(&membag->n_free, 1);
RlAdd ==
    /\ BagRunning("release", "add")
    /\ bag' = [bag EXCEPT !.n_free = AfterRelease(bag.n_free)]
    /\ BagReturn(bagf[self], NULL, gbag.held)
    /\ UNCHANGED depth
    /\ BagOthers

\* A nested context pre-empts the running one ...
BagInterrupt ==
    /\ depth >= 1
    /\ depth < MaxBagDepth
    /\ depth' = depth + 1
    /\ bagf' = [bagf EXCEPT ![self].clean = FALSE]
    /\ gbag' = [BagForget EXCEPT !.freed = NULL]
    /\ UNCHANGED bag
    /\ BagOthers

\* ... and returns once its own call has returned.  A slot it acquired may
\* stay held (handed to another context) and a slot it released may have
\* been acquired by another context.
BagInterruptReturn ==
    /\ depth >= 2
    /\ bagf[self].op = "none"
    /\ depth' = depth - 1
    /\ gbag' = [BagForget EXCEPT !.freed = NULL]
    /\ UNCHANGED <<bag, bagf>>
    /\ BagOthers

\* MEMBAG_STATIC_INIT(...) followed by Membag_init(&membag)
InitBag ==
    /\ bag = [data |-> 0, elem_size |-> ElemSize, n_elems |-> BagSize,
              n_free |-> BagSize,
              alloc_status |-> [s \in 0..(BagSize - 1) |-> FALSE]]
    /\ bagf = [l \in BagLevels |-> BagNoFrame]
    /\ gbag = [held |-> [s \in 0..(BagSize - 1) |-> 0],
               freed |-> NULL,
               call |-> BagNoCall]
    /\ depth = 1
    /\ NoMcas /\ NoDoubleBuffer /\ NoSlist

NextBag ==
    \/ Membag_acquire
    \/ AcUndo
    \/ AcScan
    \/ Membag_release
    \/ RlAdd
    \/ BagInterrupt
    \/ BagInterruptReturn

SpecBag == InitBag /\ [][NextBag]_vars

\* Scheduling assumed for termination: a pre-empted context resumes when the
\* handler that pre-empted it returns, and a handler makes finitely many
\* calls.  A context is not enabled while a handler runs above it, so the
\* assumption is strong fairness of its own steps and of its return.
BagStep == AcUndo \/ AcScan \/ RlAdd

BagFairness ==
    \A l \in BagLevels :
        /\ SF_vars(depth = l /\ BagStep)
        /\ SF_vars(depth = l /\ BagInterruptReturn)

SpecBagLive == SpecBag /\ BagFairness

\* ---------------------------------------------------------------------
\* Claims about the memory bag
\* ---------------------------------------------------------------------

Popcount == Cardinality({s \in BagIndexes : bag.alloc_status[s]})

\* C16: mutual exclusion.  Under any nested interleaving of Membag_acquire
\* and Membag_release in which no slot is released twice, a slot returned
\* by Membag_acquire is not returned by another Membag_acquire until it has
\* been released: no slot has two holders, and a held slot has its flag set.
C16_MutualExclusion ==
    \A s \in BagIndexes :
        /\ gbag.held[s] <= 1
        /\ gbag.held[s] = 1 => bag.alloc_status[s]

\* A pre-empted acquire returns a slot while other slots are held.
C16_Witness ==
    /\ gbag.call.op = "acquire"
    /\ gbag.call.ret # NULL
    /\ ~gbag.call.clean
    /\ Cardinality(Held) >= 2

\* C17: accounting.  At every quiescent point (no context inside
\* Membag_acquire or Membag_release) n_free + popcount(flags) = N and the
\* number of set flags is the number of slots held; at every point, in
\* flight or not, the number of set flags is at most N - n_free.
C17_Accounting ==
    /\ Quiet => /\ bag.n_free + Popcount = bag.n_elems
                /\ Popcount = Cardinality(Held)
    /\ Popcount <= bag.n_elems - bag.n_free

\* A quiescent point reached by a release that was pre-empted, with a slot
\* still held.
C17_Witness ==
    /\ Quiet
    /\ gbag.call.op = "release"
    /\ ~gbag.call.clean
    /\ Held # {}

\* C18: exhaustion.  For a call of Membag_acquire made at a quiescent point
\* and not pre-empted: with fewer than N slots held it returns a non-NULL
\* slot that is not held (so N acquires give N distinct slots); with all N
\* held it returns NULL and n_free and every flag are as before the call;
\* if the call before it was a release made with all N slots held, it
\* returns the released slot.  Any acquire that begins with all N slots
\* held returns NULL, pre-empted or not.
C18_Exhaustion ==
    gbag.call.op = "acquire" =>
        /\ gbag.call.held0 = BagIndexes => gbag.call.ret = NULL
        /\ (gbag.call.quiet /\ gbag.call.clean) =>
              /\ gbag.call.held0 = BagIndexes => BagSnapshot = gbag.call.pre
              /\ gbag.call.held0 # BagIndexes =>
                    /\ gbag.call.ret # NULL
                    /\ \E s \in BagIndexes \ gbag.call.held0 :
                          gbag.call.ret = SlotPtr(s)
              /\ gbag.call.after # NULL => gbag.call.ret = gbag.call.after

\* All N slots were held, one was released, and the acquire after it returns.
C18_Witness ==
    /\ gbag.call.op = "acquire"
    /\ gbag.call.after # NULL
    /\ gbag.call.clean
    /\ Cardinality(Held) = bag.n_elems

\* An acquire made with all N slots held returns NULL.
C18_WitnessFull ==
    /\ gbag.call.op = "acquire"
    /\ gbag.call.held0 = BagIndexes
    /\ gbag.call.quiet /\ gbag.call.clean

\* C19: termination.  Provided no slot is released twice, every
\* Membag_acquire call returns: a call whose decrement succeeded finds a
\* clear flag, also when nested contexts acquire and release slots while it
\* scans.
C19_AcquireTerminates ==
    \A l \in BagLevels : (bagf[l].op = "acquire") ~> (bagf[l].op = "none")

\* A scan that was pre-empted and skipped flags set by nested contexts
\* returns a slot.
C19_Witness ==
    /\ gbag.call.op = "acquire"
    /\ gbag.call.ret # NULL
    /\ ~gbag.call.clean
    /\ gbag.call.tests >= 3

\* C33: Membag_acquire returns NULL only when no slot is available.  If, at
\* the moment a call decrements n_free, more flags are clear than there are
\* successful acquires in flight (calls that have reserved a slot and are
\* scanning for it) and releases in flight (calls that have cleared a flag
\* and not yet counted it), the call goes on to scan for a slot and does not
\* return NULL; in particular not because an outer acquire that fails stands
\* between its decrement and its undo.
ClearFlags == {s \in BagIndexes : ~bag.alloc_status[s]}
Reserving == {l \in BagLevels : bagf[l].op = "acquire" /\ bagf[l].pc = "scan"}
Releasing == {l \in BagLevels : bagf[l].op = "release" /\ bagf[l].pc = "add"}
Available ==
    Cardinality(ClearFlags) - Cardinality(Reserving) - Cardinality(Releasing)

AcquireDecrements ==
    /\ depth' = depth
    /\ bagf[self].op = "none"
    /\ bagf'[self].op = "acquire"

C33_NullOnlyWhenNoneAvailable ==
    [][(AcquireDecrements /\ Available > 0) => bagf'[self].pc = "scan"]_vars

\* =====================================================================
\* Singly linked list (src/unnamed/part_000 = slist.c, part_006 = slist.h)
\*
\* Slist_delete_after is modelled with the accesses its types require:
\* line 63 loads to_delete->next, lines 64-65 compare prev->next with
\* to_delete and store next_of_to_delete, lines 69-70 compare
\* to_delete->next with next_of_to_delete and store NULL.  (As written the
\* calls pass the values where the atomic_* functions take addresses.)
\* =====================================================================
\* Nodes that exist: nodes 1..ListLen form the initial list, the others are
\* not linked yet.
NNodes == 4
ListLen == 3
\* Deepest nesting of contexts that use the list.
MaxSlDepth == 3
\* SpecSlAppend: length of the initial list (the other nodes can be
\* appended) and deepest nesting.
AppendListLen == 2
AppendDepth == 2

SlLevels == 1..MaxSlDepth
Nodes == 1..NNodes
\* The first node of the list; it is never deleted.
ListHead == 1

\* Locals of a call: node, arg (new or to_delete), prev, next
\* (next / next_of_to_delete), and in Slist_next_stable_until ns (its next)
\* and limit.  What the call saw when it began: list0, the nodes reachable
\* from its node argument; appended0 and deleted0, the nodes inserted and
\* deleted so far.
SlNoFrame ==
    [op |-> "none", pc |-> "none", node |-> NULL, arg |-> NULL,
     prev |-> NULL, next |-> NULL, ns |-> NULL, limit |-> NULL,
     clean |-> TRUE, list0 |-> <<>>, appended0 |-> {}, deleted0 |-> {}]

\* how: "return", "assert" (the program stops in assert(false)) or "end"
\* (control reaches the end of the function: NDEBUG build).
SlNoCall ==
    [op |-> "none", how |-> "return", refused |-> FALSE, ret |-> NULL,
     node |-> NULL, arg |-> NULL, clean |-> TRUE, list0 |-> <<>>, appended0 |-> {},
     deleted0 |-> {}]

SlRunning(op, pc) ==
    /\ depth >= 1
    /\ slf[self].op = op
    /\ slf[self].pc = pc

SlAt(pc) == depth >= 1 /\ slf[self].pc = pc

SlIdle == depth >= 1 /\ slf[self].op = "none"

SlOthers == UNCHANGED <<mcasvars, dbvars, bagvars>>

\* The nodes after n along next pointers, at most k of them.
RECURSIVE ChainIn(_, _, _)
ChainIn(next, n, k) ==
    IF k = 0 \/ next[n] = NULL THEN <<>>
    ELSE <<next[n]>> \o ChainIn(next, next[n], k - 1)

Chain(n, k) == ChainIn(sl.next, n, k)

Range(s) == {s[i] : i \in 1..Len(s)}

\* The nodes reachable from n through next pointers, in order.
After(n) == Chain(n, NNodes)
Reach(n) == Range(After(n))

SlForget == [gsl EXCEPT !.call = SlNoCall]

SlCall(op, node, arg) ==
    [SlNoFrame EXCEPT !.op = op, !.node = node, !.arg = arg,
                      !.list0 = After(node), !.appended0 = gsl.appended,
                      !.deleted0 = gsl.deleted]

\* The call of the running context ends.
SlReturn(f, how, ret) ==
    /\ slf' = [slf EXCEPT ![self] =
                  IF how = "assert" THEN [f EXCEPT !.op = "aborted", !.pc = "none"]
                  ELSE SlNoFrame]
    /\ gsl' = [gsl EXCEPT
          !.appended = IF f.op = "append" /\ ret # NULL /\ ret \in Reach(ListHead)'
                       THEN gsl.appended \cup {ret} ELSE gsl.appended,
          !.deleted = IF f.op = "delete_after" /\ how = "return" /\ f.pc = "unmark"
                      THEN gsl.deleted \cup {f.arg} ELSE gsl.deleted,
          !.call = [op |-> f.op, how |-> how, refused |-> f.pc = "none",
                    ret |-> ret, node |-> f.node,
                    arg |-> f.arg, clean |-> f.clean, list0 |-> f.list0,
                    appended0 |-> f.appended0, deleted0 |-> f.deleted0]]

SlGoto(f) ==
    /\ slf' = [slf EXCEPT ![self] = f]
    /\ gsl' = SlForget

\* assert(false): the program stops, or with NDEBUG goes on at f.
SlAssert(f, g) ==
    IF gsl.ndebug THEN g ELSE SlReturn(f, "assert", NULL)

\* ---- Slist_next_stable_until(node, limit) -------------------------------
\* return next;
NsDone(f, next) ==
    IF f.op = "next"
    THEN SlReturn(f, "return", next)
    ELSE SlGoto([f EXCEPT !.prev = next, !.pc = "loop"])

\* while (next != NULL && next != limit)
NsGot(f, next) ==
    IF next # NULL /\ next # f.limit
    THEN SlGoto([f EXCEPT !.ns = next, !.pc = "ns_test"])
    ELSE NsDone(f, next)

\* SlistNode *next = atomic_load(&node->next);
NsLoad ==
    /\ SlAt("ns_load")
    /\ NsGot(slf[self], sl.next[slf[self].prev])
    /\ UNCHANGED <<sl, depth>>
    /\ SlOthers

\* if (atomic_load(&next->deleting)) ... else break;
NsTest ==
    /\ SlAt("ns_test")
    /\ LET f == slf[self]
       IN  IF sl.deleting[f.ns]
           THEN SlGoto([f EXCEPT !.pc = "ns_skip"])
           ELSE NsDone(f, f.ns)
    /\ UNCHANGED <<sl, depth>>
    /\ SlOthers

\* next = atomic_load(&next->next);
NsSkip ==
    /\ SlAt("ns_skip")
    /\ NsGot(slf[self], sl.next[slf[self].ns])
    /\ UNCHANGED <<sl, depth>>
    /\ SlOthers

\* Nodes that are or were linked.
EverLinked == Nodes \ gsl.free

\* Slist_next(node): return Slist_next_stable_until(node, NULL);
Slist_next ==
    /\ SlIdle
    /\ \E node \in EverLinked :
          NsGot([SlCall("next", node, NULL) EXCEPT !.prev = node],
                sl.next[node])
    /\ UNCHANGED <<sl, depth>>
    /\ SlOthers

\* ---- Slist_append(node, new) --------------------------------------------
\* if (atomic_load(&node->deleting))   (Slist_append, line 30)
RefusesMutant(node) == FALSE
Refuses(node) == sl.deleting[node]

\* atomic_store(&new->next, next): the value stored.
StoredNextMutant(next) == NULL
StoredNext(next) == next

\* if (atomic_load(&node->deleting)) return NULL;
Slist_append ==
    /\ SlIdle
    /\ \E node \in {ListHead} \cup Reach(ListHead), new \in gsl.free :
          LET f == SlCall("append", node, new)
          IN  /\ slf' = [slf EXCEPT ![self] =
                    IF Refuses(node) THEN SlNoFrame
                    ELSE [f EXCEPT !.pc = "ap_init"]]
              /\ gsl' = [gsl EXCEPT
                    !.free = gsl.free \ {new},
                    !.call = IF Refuses(node)
                             THEN [SlNoCall EXCEPT !.op = "append",
                                      !.refused = TRUE, !.node = node, !.arg = new,
                                      !.list0 = f.list0]
                             ELSE SlNoCall]
    /\ UNCHANGED <<sl, depth>>
    /\ SlOthers

\* atomic_store(&new->deleting, false);
ApInit ==
    /\ SlRunning("append", "ap_init")
    /\ sl' = [sl EXCEPT !.deleting[slf[self].arg] = FALSE]
    /\ SlGoto([slf[self] EXCEPT !.pc = "ap_load"])
    /\ UNCHANGED depth
    /\ SlOthers

\* SlistNode *next = atomic_load(&node->next);
ApLoad ==
    /\ SlRunning("append", "ap_load")
    /\ SlGoto([slf[self] EXCEPT !.next = sl.next[slf[self].node],
                                !.pc = "ap_store"])
    /\ UNCHANGED <<sl, depth>>
    /\ SlOthers

\* atomic_store(&new->next, next);
ApStore ==
    /\ SlRunning("append", "ap_store")
    /\ sl' = [sl EXCEPT !.next[slf[self].arg] = StoredNext(slf[self].next)]
    /\ SlGoto([slf[self] EXCEPT !.pc = "ap_cas"])
    /\ UNCHANGED depth
    /\ SlOthers

\* while (!atomic_compare_exchange_strong(&node->next, &next, new));
\* return new;
ApCas ==
    /\ SlRunning("append", "ap_cas")
    /\ LET f == slf[self]
       IN  IF sl.next[f.node] = f.next
           THEN /\ sl' = [sl EXCEPT !.next[f.node] = f.arg]
                /\ SlReturn(f, "return", f.arg)
           ELSE /\ SlGoto([f EXCEPT !.next = sl.next[f.node],
                                    !.pc = "ap_store"])
                /\ UNCHANGED sl
    /\ UNCHANGED depth
    /\ SlOthers

\* ---- Slist_delete_after(node, to_delete) --------------------------------
\* Victims of the calls in flight.
Victims == {slf[l].arg : l \in {k \in SlLevels : slf[k].op = "delete_after"}}

\* if (atomic_load(&node->deleting)) return NULL;
\* The caller passes a node of the list and a node reachable from it that
\* no call in flight is deleting.
Slist_delete_after ==
    /\ SlIdle
    /\ \E node \in {ListHead} \cup Reach(ListHead) :
       \E to_delete \in Reach(node) \ Victims :
          LET f == SlCall("delete_after", node, to_delete)
          IN  IF sl.deleting[node]
              THEN SlReturn(f, "return", NULL)
              ELSE SlGoto([f EXCEPT !.pc = "mark"])
    /\ UNCHANGED <<sl, depth>>
    /\ SlOthers

\* atomic_store(&to_delete->deleting, true); SlistNode *prev = node;
DlMark ==
    /\ SlRunning("delete_after", "mark")
    /\ sl' = [sl EXCEPT !.deleting[slf[self].arg] = TRUE]
    /\ SlGoto([slf[self] EXCEPT !.prev = slf[self].node, !.pc = "loop"])
    /\ UNCHANGED depth
    /\ SlOthers

\* while (prev != NULL && prev != to_delete)
InLoop(prev, to_delete) == prev # NULL /\ prev # to_delete

\* if (atomic_load(&prev->next) == to_delete) ... else
\*     prev = Slist_next_stable_until(prev, to_delete);
DlLoop ==
    /\ SlRunning("delete_after", "loop")
    /\ LET f == slf[self]
       IN  /\ InLoop(f.prev, f.arg)
           /\ IF sl.next[f.prev] = f.arg
              THEN SlGoto([f EXCEPT !.pc = "loadnext"])
              ELSE SlGoto([f EXCEPT !.limit = f.arg, !.pc = "ns_load"])
    /\ UNCHANGED <<sl, depth>>
    /\ SlOthers

\* The loop ends: "to_delete was not found in the list", assert(false);
\* with NDEBUG control reaches the closing brace.
DlNotFound ==
    /\ SlRunning("delete_after", "loop")
    /\ LET f == slf[self]
       IN  /\ ~InLoop(f.prev, f.arg)
           /\ SlAssert(f, SlReturn(f, "end", NULL))
    /\ UNCHANGED <<sl, depth>>
    /\ SlOthers

\* SlistNode *next_of_to_delete = atomic_load(to_delete->next);
DlLoadNext ==
    /\ SlRunning("delete_after", "loadnext")
    /\ SlGoto([slf[self] EXCEPT !.next = sl.next[slf[self].arg],
                                !.pc = "cas1"])
    /\ UNCHANGED <<sl, depth>>
    /\ SlOthers

\* if (!atomic_compare_exchange_strong(&prev->next, to_delete,
\*                                     next_of_to_delete)) continue;
DlCas1 ==
    /\ SlRunning("delete_after", "cas1")
    /\ LET f == slf[self]
       IN  IF sl.next[f.prev] = f.arg
           THEN /\ sl' = [sl EXCEPT !.next[f.prev] = f.next]
                /\ SlGoto([f EXCEPT !.pc = "cas2"])
           ELSE /\ SlGoto([f EXCEPT !.pc = "loop"])
                /\ UNCHANGED sl
    /\ UNCHANGED depth
    /\ SlOthers

\* if (!atomic_compare_exchange_strong(&to_delete->next, next_of_to_delete,
\*                                     NULL)) assert(false);
DlCas2 ==
    /\ SlRunning("delete_after", "cas2")
    /\ LET f == slf[self]
       IN  IF sl.next[f.arg] = f.next
           THEN /\ sl' = [sl EXCEPT !.next[f.arg] = NULL]
                /\ SlGoto([f EXCEPT !.pc = "unmark"])
           ELSE /\ SlAssert(f, SlGoto([f EXCEPT !.pc = "unmark"]))
                /\ UNCHANGED sl
    /\ UNCHANGED depth
    /\ SlOthers

\* atomic_store(&to_delete->deleting, false); return ;
DlUnmark ==
    /\ SlRunning("delete_after", "unmark")
    /\ sl' = [sl EXCEPT !.deleting[slf[self].arg] = FALSE]
    /\ SlReturn(slf[self], "return", NULL)
    /\ UNCHANGED depth
    /\ SlOthers

\* A nested context pre-empts the running one ...
SlInterrupt ==
    /\ depth >= 1
    /\ depth < gsl.levels
    /\ slf[self].op # "aborted"
    /\ depth' = depth + 1
    /\ slf' = [slf EXCEPT ![self].clean = FALSE]
    /\ gsl' = SlForget
    /\ UNCHANGED sl
    /\ SlOthers

\* ... and returns once its own call has returned.
SlInterruptReturn ==
    /\ depth >= 2
    /\ slf[self].op = "none"
    /\ depth' = depth - 1
    /\ gsl' = SlForget
    /\ UNCHANGED <<sl, slf>>
    /\ SlOthers

\* A list 1 -> 2 -> ... -> len; the other nodes are not linked.  The
\* build has assert enabled or disabled (NDEBUG).  At most `levels`
\* contexts are nested.
InitSlWith(len, levels) ==
    /\ sl = [next |-> [n \in Nodes |-> IF n < len THEN n + 1 ELSE NULL],
             deleting |-> [n \in Nodes |-> FALSE]]
    /\ slf = [l \in SlLevels |-> SlNoFrame]
    /\ \E ndebug \in BOOLEAN :
          gsl = [free |-> (len + 1)..NNodes, appended |-> {},
                 deleted |-> {}, ndebug |-> ndebug, levels |-> levels,
                 call |-> SlNoCall]
    /\ depth = 1
    /\ NoMcas /\ NoDoubleBuffer /\ NoMembag

InitSl == InitSlWith(ListLen, MaxSlDepth)

\* A shorter list, so that two nodes can be appended.
InitSlAppend == InitSlWith(AppendListLen, AppendDepth)

NextSl ==
    \/ Slist_next
    \/ NsLoad
    \/ NsTest
    \/ NsSkip
    \/ Slist_append
    \/ ApInit
    \/ ApLoad
    \/ ApStore
    \/ ApCas
    \/ Slist_delete_after
    \/ DlMark
    \/ DlLoop
    \/ DlNotFound
    \/ DlLoadNext
    \/ DlCas1
    \/ DlCas2
    \/ DlUnmark
    \/ SlInterrupt
    \/ SlInterruptReturn

SpecSl == InitSl /\ [][NextSl]_vars

SpecSlAppend == InitSlAppend /\ [][NextSl]_vars

\* ---------------------------------------------------------------------
\* Claims about the list
\* ---------------------------------------------------------------------

\* The positions of the nodes of set S in sequence s, in order.
Restrict(s, S) == SelectSeq(s, LAMBDA n : n \in S)

\* C20: Slist_delete_after(from, victim), called with from not marked
\* deleting and victim reachable from from, returns with victim no longer
\* reachable from from and victim.next = NULL; every other node that was
\* reachable from from (and that no nested delete removed) is still
\* reachable, in the same relative order; nodes inserted by nested appends
\* during the delete are still in the list.  (Checked for calls whose from
\* was not itself deleted by a nested call.)
C20_DeleteAfter ==
    LET c == gsl.call
        others == Range(c.list0) \ ({c.arg} \cup gsl.deleted)
    IN  (c.op = "delete_after" /\ ~c.refused /\ c.node \notin gsl.deleted) =>
            /\ c.how = "return"
            /\ c.arg \notin Reach(c.node)
            /\ sl.next[c.arg] = NULL
            /\ others \subseteq Reach(c.node)
            /\ Restrict(After(c.node), others) = Restrict(c.list0, others)
            /\ (gsl.appended \ (c.appended0 \cup gsl.deleted))
                  \subseteq Reach(ListHead)

\* C21: Slist_append(node, new) refuses exactly when it finds node.deleting
\* set: it then returns NULL and changes no field of any node.  Otherwise
\* it returns new, and the step that installs it leaves node.next = new and
\* new.next = the successor node had at that moment, so the nodes that were
\* reachable from node are the nodes reachable from new, in the same order.
AppendRefused ==
    /\ gsl'.call.op = "append" /\ gsl'.call.refused
    /\ depth' = depth /\ slf[self].op = "none"

AppendInstalled ==
    /\ gsl'.call.op = "append" /\ ~gsl'.call.refused
    /\ depth' = depth /\ slf[self].op = "append"

AppendBegins ==
    /\ depth' = depth /\ slf[self].op = "none"
    /\ slf'[self].op = "append"

C21_Append ==
    [][ /\ AppendRefused =>
              /\ sl.deleting[gsl'.call.node]
              /\ gsl'.call.ret = NULL
              /\ sl' = sl
        /\ AppendBegins => ~sl.deleting[slf'[self].node]
        /\ AppendInstalled =>
              LET node == slf[self].node
                  new == slf[self].arg
              IN  /\ gsl'.call.ret = new
                  /\ sl'.next[node] = new
                  /\ sl'.next[new] = sl.next[node]
                  /\ ChainIn(sl'.next, node, NNodes) = <<new>> \o After(node)
                  /\ sl'.deleting[new] = FALSE ]_vars

\* An append returns whose node received another node from a nested append
\* between its load and its compare-exchange.
C21_Witness ==
    /\ gsl.call.op = "append"
    /\ ~gsl.call.refused
    /\ ~gsl.call.clean
    /\ gsl.call.ret # NULL
    /\ sl.next[gsl.call.ret] \in gsl.appended \ gsl.call.appended0
    /\ sl.next[gsl.call.node] = gsl.call.ret

\* C30: in Slist_delete_after, from the marking of victim.deleting to the
\* compare-exchange that sets victim.next to NULL no step of any context
\* changes victim.next; the compare-exchange finds the value loaded at line
\* 63 and the assertion at line 74 does not fail.
BeforeSecondCas(f) ==
    /\ f.op = "delete_after"
    /\ f.pc \in {"loop", "ns_load", "ns_test", "ns_skip", "loadnext",
                 "cas1", "cas2"}

C34_VictimFound ==
    \A l \in SlLevels :
        (slf[l].op = "delete_after" /\ slf[l].pc = "loop") =>
            InLoop(slf[l].prev, slf[l].arg)

\* C28 as stated: every DoubleBuffer_write_acquire and
\* DoubleBuffer_read_acquire call returns under nested pre-emption of
\* bounded depth in which every nested context runs to completion (the
\* outermost context runs again and again).
InAcquire(l) == dbf[l].op \in {"write_acquire", "read_acquire"}

NestedContextsComplete == []<>(depth = 1)

C28_AcquireReturns ==
    NestedContextsComplete =>
        \A l \in 1..LiveDbDepth : InAcquire(l) ~> (dbf[l].op = "none")

\* C28, amended: a DoubleBuffer_write_acquire or DoubleBuffer_read_acquire
\* call returns if only finitely many nested contexts pre-empt it, each
\* running to completion.
C28_AcquireReturnsIfPreemptionsCease ==
    \A l \in 1..LiveDbDepth :
        (<>[](depth = l)) => (InAcquire(l) ~> (dbf[l].op = "none"))

\* A pre-empted first reader has returned after its adoption loop ran
\* again.
C28_Witness ==
    /\ gdb.call.op = "read_acquire"
    /\ gdb.call.first
    /\ ~gdb.call.clean
    /\ depth = 1

\* C29: every queue operation, and with it every Mcas_read and
\* Mcas_compare_exchange it invokes (a queue function returns only after
\* the last of them has), terminates under nested pre-emption of bounded
\* depth in which every context nested above it runs to completion; it
\* does not wait for a context below it.
QueueInFlight(l) == qf[l].op \notin {"none", "aborted"}

RingInvariants(indexes, n) ==
    /\ (indexes[WC] - indexes[RA] + n) % n = indexes[CR] % n
    /\ (indexes[RR] - indexes[WA] + n) % n = indexes[CW] % n
    /\ \A i \in {WA, WC, RA, RR} : indexes[i] \in 0..(n - 1)

C25_RingInvariants == AtRest => RingInvariants(data, q.n_elems)

\* C26: under NESTED order a write_commit (read_release) of a slot that is
\* not at WRITE_COMMITTED (READ_RELEASED) changes no index word, and the
\* slot is carried across by the commit of the slot at the edge: once no
\* context holds a slot for writing, WRITE_COMMITTED = WRITE_ALLOCATED and
\* every slot written and not yet handed out to a reader is counted
\* readable; once no context holds a slot for reading, READ_RELEASED =
\* READ_ACQUIRED.
NotAtEdgeIsNoOp(op) ==
    LET a == QueueArgs(op)
        last == gq.last
    IN (/\ last.op = op /\ a.order = "NESTED"
        /\ last.pre[a.commit_idx] # ptr_to_idx(last.slot))
       => ~last.moved /\ data = last.pre

NoneHeld(kind) == \A l \in Levels : gq.own[l][kind] = <<>>

C26_NestedCarriesAcross ==
    /\ NotAtEdgeIsNoOp("write_commit")
    /\ NotAtEdgeIsNoOp("read_release")
    /\ (AtRest /\ q.write_order = "NESTED" /\ NoneHeld("w")) =>
           /\ data[WC] = data[WA]
           /\ data[CR] = Len(gq.fifo)
    /\ (AtRest /\ q.read_order = "NESTED" /\ NoneHeld("r")) =>
           data[RR] = data[RA]

\* C27: the slots an iterator yields through NestedQueueIterator_next
\* until it returns NULL are exactly the slots that were acquired and not
\* yet committed (released) when it was made, each once, oldest first, for
\* every number of such slots from 0 to N.
SlotsOf(indexes) == [k \in 1..Len(indexes) |-> idx_to_ptr(indexes[k])]

C27_IteratorYieldsInFlight ==
    iterator.done => iterator.yielded = SlotsOf(iterator.in_flight)

\* =========================================================================
\* The index-based NestedQueue: struct NestedQueue of nested_queue.h with its
\* four atomic indexes and no counters, and the nested_queue.c written
\* against it.
\* =========================================================================

\* ------------------------------------------------------------------ bounds
\* Largest n_elems of the index-based queue.
MaxIqElems == 3

\* The frame of the queue function a level executes:
\*   op     the entry point, "none" outside a call
\*   pc     the atomic access the level performs next
\*   src, dst    NestedQueue_acquire's locals
\*   slot, orig, dest   NestedQueue_commit's locals
\*   first  history: whether the call is the first made on the queue
NoIqFrame ==
    [op |-> "none", pc |-> "idle", src |-> 0, dst |-> 0,
     slot |-> 0, orig |-> 0, dest |-> 0, first |-> FALSE]

\* NESTED_QUEUE_STATIC_INIT(p_elem_size, p_n_elems, p_data_array); history:
\*   fresh  no call has been made yet
\*   held   the slots each level has acquired and not yet committed
\*   last   the call that returned last
IqStaticInit(p_elem_size, p_n_elems) ==
    [n_elems |-> p_n_elems, elem_size |-> p_elem_size,
     write_allocated |-> 0, write_committed |-> 0,
     read_acquired |-> 0, read_released |-> 0,
     f |-> [l \in Levels |-> NoIqFrame],
     fresh |-> TRUE,
     held |-> [l \in Levels |-> [w |-> {}, r |-> {}]],
     last |-> [op |-> "none", ret |-> NULL, first |-> FALSE]]

iq_idx_to_ptr(index) == iq.elem_size * index
iq_ptr_to_idx(ptr) == ptr \div iq.elem_size

\* The arguments the entry points pass to NestedQueue_acquire (acquire,
\* limit) and to NestedQueue_commit (commit, acquire).
IqArgs(op) ==
    CASE op = "write_acquire" ->
            [acquire |-> "write_allocated", limit |-> "read_released", kind |-> "w"]
      [] op = "read_acquire" ->
            [acquire |-> "read_acquired", limit |-> "write_committed", kind |-> "r"]
      [] op = "write_commit" ->
            [commit |-> "write_committed", acquire |-> "write_allocated", kind |-> "w"]
      [] op = "read_release" ->
            [commit |-> "read_released", acquire |-> "read_acquired", kind |-> "r"]

IqRunning(label) == depth >= 1 /\ iq.f[self].pc = label

\* The function returns ret to its caller.
IqReturn(next, ret) ==
    LET f == next.f[self]
        k == IqArgs(f.op).kind
    IN [next EXCEPT
           !.f[self] = NoIqFrame,
           !.last = [op |-> f.op, ret |-> ret, first |-> f.first],
           !.held[self][k] =
               IF f.op \in {"write_acquire", "read_acquire"} /\ ret # NULL
               THEN @ \cup {ret} ELSE @]

\* NestedQueue_write_acquire(q), NestedQueue_read_acquire(q): the call.
IqAcquireCall(op) ==
    /\ depth >= 1
    /\ iq.f[self].op = "none"
    /\ iq' = [iq EXCEPT !.f[self] = [NoIqFrame EXCEPT !.op = op,
                                                      !.pc = "load_acquire",
                                                      !.first = iq.fresh],
                        !.fresh = FALSE]
    /\ UNCHANGED depth

NestedQueue_write_acquire_idx == IqAcquireCall("write_acquire")
NestedQueue_read_acquire_idx == IqAcquireCall("read_acquire")

\* unsigned int src = atomic_load(acquire);
IqAcquireLoad ==
    /\ IqRunning("load_acquire")
    /\ iq' = [iq EXCEPT !.f[self].src = iq[IqArgs(iq.f[self].op).acquire],
                        !.f[self].pc = "load_limit"]
    /\ UNCHANGED depth

\* if (src == atomic_load(limit)) { return NULL; }
\* else { dst = (src + 1) % q->n_elems; }
IqAcquireLimit ==
    /\ IqRunning("load_limit")
    /\ LET f == iq.f[self]
       IN iq' = IF f.src = iq[IqArgs(f.op).limit]
                THEN IqReturn(iq, NULL)
                ELSE [iq EXCEPT !.f[self].dst = (f.src + 1) % iq.n_elems,
                                !.f[self].pc = "cas"]
    /\ UNCHANGED depth

\* while (!atomic_compare_exchange_weak(acquire, &src, dst));
\* return idx_to_ptr(q, src);
\* The weak compare-exchange may fail although *acquire == src.
IqAcquireCas ==
    /\ IqRunning("cas")
    /\ LET f == iq.f[self]
           a == IqArgs(f.op).acquire
       IN \/ /\ iq[a] = f.src
             /\ iq' = IqReturn([iq EXCEPT ![a] = f.dst], iq_idx_to_ptr(f.src))
          \/ iq' = [iq EXCEPT !.f[self].src = iq[a],
                              !.f[self].pc = "load_limit"]
    /\ UNCHANGED depth

\* NestedQueue_write_commit(q, slot), NestedQueue_read_release(q, slot): the
\* call, with a slot the caller acquired and holds;
\* unsigned int slot = ptr_to_idx(q, slot_ptr);
IqCommitCall(op) ==
    /\ depth >= 1
    /\ iq.f[self].op = "none"
    /\ \E slot_ptr \in iq.held[self][IqArgs(op).kind] :
           iq' = [iq EXCEPT !.f[self] = [NoIqFrame EXCEPT
                                            !.op = op,
                                            !.pc = "commit_check",
                                            !.slot = iq_ptr_to_idx(slot_ptr),
                                            !.first = iq.fresh],
                            !.fresh = FALSE,
                            !.held[self][IqArgs(op).kind] = @ \ {slot_ptr}]
    /\ UNCHANGED depth

NestedQueue_write_commit_idx == IqCommitCall("write_commit")
NestedQueue_read_release_idx == IqCommitCall("read_release")

\* if (slot != atomic_load(commit)) { return; }
IqCommitCheck ==
    /\ IqRunning("commit_check")
    /\ LET f == iq.f[self]
       IN iq' = IF f.slot # iq[IqArgs(f.op).commit]
                THEN IqReturn(iq, NULL)
                ELSE [iq EXCEPT !.f[self].pc = "commit_load"]
    /\ UNCHANGED depth

\* dest = atomic_load(acquire);
IqCommitLoad ==
    /\ IqRunning("commit_load")
    /\ iq' = [iq EXCEPT !.f[self].dest = iq[IqArgs(iq.f[self].op).acquire],
                        !.f[self].pc = "commit_exchange"]
    /\ UNCHANGED depth

\* orig = atomic_exchange(commit, dest);  } while (orig != dest);
IqCommitExchange ==
    /\ IqRunning("commit_exchange")
    /\ LET f == iq.f[self]
           c == IqArgs(f.op).commit
           stored == [iq EXCEPT ![c] = f.dest, !.f[self].orig = iq[c]]
       IN iq' = IF iq[c] # f.dest
                THEN [stored EXCEPT !.f[self].pc = "commit_load"]
                ELSE IqReturn(stored, NULL)
    /\ UNCHANGED depth

\* A nested context pre-empts the running one; it returns holding nothing.
IqInterrupt ==
    /\ depth >= 1
    /\ depth < MaxDepth
    /\ depth' = depth + 1
    /\ UNCHANGED iq

IqInterruptReturn ==
    /\ depth >= 2
    /\ iq.f[self].op = "none"
    /\ iq.held[self] = [w |-> {}, r |-> {}]
    /\ depth' = depth - 1
    /\ UNCHANGED iq

\* ------------------------------------------------------------------ SpecIq
InitIq ==
    /\ depth = 1
    /\ \E n \in 1..MaxIqElems : iq = IqStaticInit(ElemSize, n)
    /\ n_elems = 0 /\ data = <<>> /\ journal = 0
    /\ ent = <<>> /\ loc = <<>> /\ legit = {} /\ obs = <<>>
    /\ q = <<>> /\ qf = <<>> /\ gq = <<>> /\ iterator = <<>>
    /\ NoDoubleBuffer /\ NoMembag /\ NoSlist

IqOthers ==
    <<n_elems, data, journal, ent, loc, legit, obs, q, qf, gq, iterator,
      dbvars, bagvars, slvars>>

\* Every step of every entry point.
NextIqAll ==
    \/ NestedQueue_write_acquire_idx
    \/ NestedQueue_read_acquire_idx
    \/ IqAcquireLoad
    \/ IqAcquireLimit
    \/ IqAcquireCas
    \/ NestedQueue_write_commit_idx
    \/ NestedQueue_read_release_idx
    \/ IqCommitCheck
    \/ IqCommitLoad
    \/ IqCommitExchange
    \/ IqInterrupt
    \/ IqInterruptReturn

\* No level ever stands before the compare-exchange or holds a slot, so the
\* steps below the limit test and the two commit functions are never
\* enabled; the steps that are:
NextIq ==
    \/ NestedQueue_write_acquire_idx /\ UNCHANGED IqOthers
    \/ NestedQueue_read_acquire_idx /\ UNCHANGED IqOthers
    \/ IqAcquireLoad /\ UNCHANGED IqOthers
    \/ IqAcquireLimit /\ UNCHANGED IqOthers
    \/ IqInterrupt /\ UNCHANGED IqOthers
    \/ IqInterruptReturn /\ UNCHANGED IqOthers

SpecIq == InitIq /\ [][NextIq]_vars

\* The same with every step, to compare.
SpecIqAll == InitIq /\ [][NextIqAll /\ UNCHANGED IqOthers]_vars

\* --------------------------------------------------- index-based queue claims
\* Nothing but the limit test of an acquire is ever reached: no level stands
\* before the compare-exchange or in a commit, no slot is held, and the four
\* indexes keep the value the initialiser gave them.
IqStuck ==
    /\ \A l \in Levels :
          /\ iq.f[l].pc \in {"idle", "load_acquire", "load_limit"}
          /\ iq.held[l] = [w |-> {}, r |-> {}]
    /\ iq.write_allocated = 0 /\ iq.write_committed = 0
    /\ iq.read_acquired = 0 /\ iq.read_released = 0

\* C31: on a queue freshly initialised with NESTED_QUEUE_STATIC_INIT and
\* n_elems >= 1, the first NestedQueue_write_acquire returns a slot, not NULL.
C31_FreshWriteAcquire ==
    (iq.last.op = "write_acquire" /\ iq.last.first) => iq.last.ret # NULL

====
